---------------------------- MODULE Spec2Model ----------------------------
(***************************************************************************)
(* A model of the discrete-event network simulator: the event executor     *)
(* (a binary heap of timed events plus a poll phase), the drop-tail queue, *)
(* hosts running go-back-N flows, and the lossy / PFC / ingress-PFC / NACK *)
(* switches of the one-big-switch topology.                                *)
(*                                                                         *)
(* Eight specifications share the module; FairSpec adds fairness to Spec:  *)
(*   SpecExec   the executor alone, driven by arbitrary events;            *)
(*   SpecQueue  one DropTailQueue under arbitrary operation sequences;     *)
(*   SpecLookup Topology::lookup_nodes on arbitrary lists of ids;          *)
(*   Spec       whole simulations (executor + topology + flows), one       *)
(*              deterministic run per scenario chosen in Init;             *)
(*   SpecVictim the victim-flow simulations, which run past 2^31 ns;       *)
(*   SpecIngress simulations on the IngressPFCSwitch: incasts, injected    *)
(*              packets, with and without integer overflow checks;         *)
(*   SpecHost   simulations with two flows on one sending host;            *)
(*   SpecSender one host with one GoBackNSender under arbitrary calls.     *)
(* Times are nanoseconds as in the source (Nanos = u64), except in         *)
(* SpecVictim, SpecHost and SpecSender, whose runs count time in ticks of  *)
(* 1000 ns (see InTicks).                                                  *)
(***************************************************************************)
EXTENDS Integers, Sequences, FiniteSets, TLC

VARIABLES
    events,        \* Executor.events: the BinaryHeap's vector of EventContainer
    current_time,  \* Executor.current_time
    pc,            \* where execute() stands: "setup", "loop", "polled", "done", "panic", "error"
    pushed,        \* number of push_onto calls so far (numbers the containers)
    lastPop,       \* the container most recently popped for execution
    polls,         \* number of poll phases run so far
    hosts,         \* Topology.hosts, indexed by host id
    sw,            \* Topology.switches[0], the one big switch
    scn,           \* the scenario: switch kind, topology arguments, flows
    gh,            \* observations of the run (drops, panics, ...)
    q,             \* the queue of SpecQueue
    lookup         \* the last call of Topology::lookup_nodes: its ids and what it returned

vars == <<events, current_time, pc, pushed, lastPop, polls, hosts, sw, scn, gh, q, lookup>>

None == 0 - 1

(***************************************************************************)
(* Packets (packet.rs).                                                    *)
(***************************************************************************)
HeaderSize == 40
PauseSize == 9

NoPkt == [type |-> "None", flow |-> 0, from |-> 0, to |-> 0, seq |-> 0, length |-> 0]

Data(flow, from, to, seq, length) ==
    [type |-> "Data", flow |-> flow, from |-> from, to |-> to, seq |-> seq, length |-> length]

\* an Ack that acknowledges one byte more than it was given
AckOneAhead(flow, from, to, cumulative_acked_seq) ==
    [type |-> "Ack", flow |-> flow, from |-> from, to |-> to, seq |-> cumulative_acked_seq + 1, length |-> 0]

\* Ack.seq is cumulative_acked_seq
Ack(flow, from, to, cumulative_acked_seq) ==
    [type |-> "Ack", flow |-> flow, from |-> from, to |-> to, seq |-> cumulative_acked_seq, length |-> 0]

\* Nack.seq is nacked_seq
Nack(flow, from, to, nacked_seq) ==
    [type |-> "Nack", flow |-> flow, from |-> from, to |-> to, seq |-> nacked_seq, length |-> 0]

Pause(id) == [type |-> "Pause", flow |-> 0, from |-> id, to |-> 0, seq |-> 0, length |-> 0]

Resume(id) == [type |-> "Resume", flow |-> 0, from |-> id, to |-> 0, seq |-> 0, length |-> 0]

get_size_bytes(p) ==
    CASE p.type \in {"Pause", "Resume"} -> PauseSize
      [] p.type \in {"Nack", "Ack"} -> HeaderSize
      [] OTHER -> p.length + HeaderSize

(***************************************************************************)
(* Links (node/mod.rs).                                                    *)
(***************************************************************************)
Link(pd, bw, pfc, from, to) ==
    [propagation_delay |-> pd, bandwidth_bps |-> bw, pfc_enabled |-> pfc, from |-> from, to |-> to]

NoLink == Link(0, 0, FALSE, 0, 0)

Mtu == 1500

\* propagation_delay * bandwidth_bps / 1_000_000_000 / 8, in bytes.  Both factors
\* of the scenarios are multiples of 1000, so the product is taken on the
\* thousands to stay inside the model checker's integers.
Bdp(l) == (((l.propagation_delay \div 1000) * (l.bandwidth_bps \div 1000)) \div 1000) \div 8

pfc_pause_threshold(l) == IF ~l.pfc_enabled THEN 0 ELSE Bdp(l) + Mtu + Mtu

pfc_resume_threshold(l) == pfc_pause_threshold(l) + 2 * Mtu

\* size * 8 * 1_000_000_000 / bandwidth_bps, computed as
\* size*8*(10^9 div bw) + (size*8*(10^9 mod bw)) div bw, which is the same number.
TransmissionDelay(size, bw) ==
    (size * 8) * (1000000000 \div bw) + ((size * 8) * (1000000000 % bw)) \div bw

(***************************************************************************)
(* Events and the executor's heap (event.rs).                              *)
(***************************************************************************)
NoInfo == [flow_id |-> 0, sender_id |-> 0, dest_id |-> 0, length_bytes |-> 0, max_packet_length |-> 0]

\* An event of SpecExec: any implementor of the Event trait, reduced to its time().
AbstractEvent(abs, t) ==
    [kind |-> "Abstract", abs |-> abs, t |-> t, link |-> NoLink, pkt |-> NoPkt, info |-> NoInfo]

FlowArrivalEvent(info, at) ==
    [kind |-> "FlowArrival", abs |-> TRUE, t |-> at, link |-> NoLink, pkt |-> NoPkt, info |-> info]

NodeTransmitEvent(l, p) ==
    [kind |-> "NodeTransmit", abs |-> FALSE,
     t |-> TransmissionDelay(get_size_bytes(p), l.bandwidth_bps),
     link |-> l, pkt |-> p, info |-> NoInfo]

\* a link that takes no time
LinkTransmitEventInstant(l, p) ==
    [kind |-> "LinkTransmit", abs |-> FALSE, t |-> 0, link |-> l, pkt |-> p, info |-> NoInfo]

LinkTransmitEvent(l, p) ==
    [kind |-> "LinkTransmit", abs |-> FALSE, t |-> l.propagation_delay,
     link |-> l, pkt |-> p, info |-> NoInfo]

\* EventContainer::abs_time
abs_time(ev, now) == IF ev.abs THEN ev.t ELSE now + ev.t

\* impl PartialOrd for EventContainer: the order is reversed on the fire time and
\* looks at nothing else.  ContainerLe(a, b) is a <= b, ContainerGt(a, b) is a > b.
ContainerLe(a, b) == a.time >= b.time

ContainerGt(a, b) == a.time < b.time

\* With(v, In) is In(v) with v evaluated once: what a let binding of the code is.  (A
\* LET definition is an expression, which TLC may evaluate again at each use.)
With(v, In(_)) == CHOOSE r \in {In(x) : x \in {v}} : TRUE

\* BinaryHeap::sift_up(start, pos) with the hole's element elt; positions are 0-based
RECURSIVE sift_up(_, _, _, _)
sift_up(heap, start, pos, elt) ==
    With(heap, LAMBDA data :
    IF pos > start
    THEN LET parent == (pos - 1) \div 2 IN
         IF ContainerLe(elt, data[parent + 1])
         THEN [data EXCEPT ![pos + 1] = elt]
         ELSE sift_up([data EXCEPT ![pos + 1] = data[parent + 1]], start, parent, elt)
    ELSE [data EXCEPT ![pos + 1] = elt])

\* BinaryHeap::sift_down_to_bottom(0): the hole goes down to a leaf along the greater
\* child (the right one on a tie), then the element is sifted up from there
RECURSIVE sift_down_to_bottom(_, _, _)
sift_down_to_bottom(heap, pos, elt) ==
    With(heap, LAMBDA data :
    LET end == Len(data)
        child == 2 * pos + 1
        right == child + 1
    IN  IF child < end
        THEN LET c == IF right < end /\ ~ContainerGt(data[child + 1], data[right + 1])
                      THEN right ELSE child
             IN  sift_down_to_bottom([data EXCEPT ![pos + 1] = data[c + 1]], c, elt)
        ELSE sift_up(data, 0, pos, elt))

\* BinaryHeap::push
heap_push(data, c) == sift_up(Append(data, c), 0, Len(data), c)

\* BinaryHeap::pop on a non-empty heap: the popped container and the heap left
heap_pop(heap) ==
    With(heap, LAMBDA data :
    LET n == Len(data)
        item == data[n]
        rest == SubSeq(data, 1, n - 1)
    IN  IF n = 1
        THEN [top |-> item, data |-> rest]
        ELSE [top |-> rest[1], data |-> sift_down_to_bottom(rest, 0, item)])

\* push_onto / Executor::push: a state st carries the heap and the push counter
push_onto(now, ev, st) ==
    [st EXCEPT !.events = heap_push(st.events, [ev |-> ev, time |-> abs_time(ev, now), id |-> st.pushed]),
               !.pushed = st.pushed + 1]

RECURSIVE push_all(_, _, _)
push_all(now, new_events, state) ==
    With(new_events, LAMBDA evs : With(state, LAMBDA st :
    IF evs = <<>> THEN st ELSE push_all(now, Tail(evs), push_onto(now, Head(evs), st))))

\* execute() without its assertion
TimeAssertedDropped(t, now) == TRUE

\* the assertion of execute(): a popped event may not lie before current_time
TimeAsserted(t, now) == t >= now

NoContainer == [ev |-> AbstractEvent(TRUE, 0), time |-> None, id |-> None]

\* no call of lookup_nodes yet
NoLookup == [called |-> FALSE, ids |-> <<>>, ok |-> TRUE, nodes |-> <<>>]


(***************************************************************************)
(* SpecExec: Executor::push and Executor::execute over arbitrary events.   *)
(* Events pushed from outside (before execute(), or between two calls of   *)
(* it on the executor it hands back) carry absolute or relative times, as  *)
(* FlowArrivalEvent does.  What a fired event's exec and the polled nodes  *)
(* return carries relative times: NodeTransmitEvent and LinkTransmitEvent  *)
(* are all that Host::exec, the switches' exec and the events' exec return.*)
(***************************************************************************)
MaxPushes == 4

MaxTime == 1

AbstractEvents == {AbstractEvent(a, t) : a \in BOOLEAN, t \in 0..MaxTime}

\* what one exec or one poll phase may hand back
Batches == {<<>>} \cup {<<AbstractEvent(FALSE, t)>> : t \in 0..MaxTime}

HeapState == [events |-> events, pushed |-> pushed]

\* the Some(evc) arm when evc.1 > current_time: push it back and poll
Repushed(data) == LET p == heap_pop(data) IN heap_push(p.data, p.top)

\* Executor::push while execute() is not running
XPush(e) ==
    /\ pc \in {"setup", "done"}
    /\ pushed < MaxPushes
    /\ LET st == push_onto(current_time, e, HeapState) IN
         /\ events' = st.events
         /\ pushed' = st.pushed
    /\ UNCHANGED <<current_time, pc, lastPop, polls, hosts, sw, scn, gh, q, lookup>>

\* the call of execute(); a second call on the executor handed back is modelled
\* when something was pushed in between
XExecute ==
    /\ pc \in {"setup", "done"}
    /\ pc = "done" => events # <<>>
    /\ pc' = "loop"
    /\ UNCHANGED <<events, current_time, pushed, lastPop, polls, hosts, sw, scn, gh, q, lookup>>

\* execute(): a popped event lies in the future, so it is pushed back and the
\* active nodes are polled at the old current_time
XPoll(news) ==
    /\ pc = "loop"
    /\ events # <<>>
    /\ TimeAsserted(events[1].time, current_time)
    /\ events[1].time > current_time
    /\ pushed + Len(news) <= MaxPushes
    /\ LET st == push_all(current_time, news, [events |-> Repushed(events), pushed |-> pushed]) IN
         /\ events' = st.events
         /\ pushed' = st.pushed
    /\ polls' = polls + 1
    /\ pc' = "polled"
    /\ UNCHANGED <<current_time, lastPop, hosts, sw, scn, gh, q, lookup>>

\* execute(): the popped event runs: time moves to its fire time and what its
\* exec returns is pushed
XFire(news) ==
    /\ \/ pc = "polled"
       \/ /\ pc = "loop"
          /\ events # <<>>
          /\ TimeAsserted(events[1].time, current_time)
          /\ ~(events[1].time > current_time)
    /\ pushed + Len(news) <= MaxPushes
    /\ LET p == heap_pop(events)
           st == push_all(p.top.time, news, [events |-> p.data, pushed |-> pushed])
       IN  /\ current_time' = p.top.time
           /\ lastPop' = p.top
           /\ events' = st.events
           /\ pushed' = st.pushed
    /\ pc' = "loop"
    /\ UNCHANGED <<polls, hosts, sw, scn, gh, q, lookup>>

\* execute(): the assertion on the popped event's time fails
XAssertFails ==
    /\ pc = "loop"
    /\ events # <<>>
    /\ ~TimeAsserted(events[1].time, current_time)
    /\ pc' = "panic"
    /\ UNCHANGED <<events, current_time, pushed, lastPop, polls, hosts, sw, scn, gh, q, lookup>>

\* execute(): the None arm: one last poll, and the run ends if the heap stays empty
XDrain(news) ==
    /\ pc = "loop"
    /\ events = <<>>
    /\ pushed + Len(news) <= MaxPushes
    /\ LET st == push_all(current_time, news, HeapState) IN
         /\ events' = st.events
         /\ pushed' = st.pushed
         /\ pc' = IF st.events = <<>> THEN "done" ELSE "loop"
    /\ polls' = polls + 1
    /\ UNCHANGED <<current_time, lastPop, hosts, sw, scn, gh, q, lookup>>

InitExec ==
    /\ events = <<>>
    /\ current_time = 0
    /\ pc = "setup"
    /\ pushed = 0
    /\ lastPop = NoContainer
    /\ polls = 0
    /\ hosts = <<>>
    /\ sw = <<>>
    /\ scn = <<>>
    /\ gh = <<>>
    /\ q = <<>>
    /\ lookup = NoLookup

NextExec ==
    \/ \E e \in AbstractEvents : XPush(e)
    \/ XExecute
    \/ \E news \in Batches : XPoll(news)
    \/ \E news \in Batches : XFire(news)
    \/ XAssertFails
    \/ \E news \in Batches : XDrain(news)

SpecExec == InitExec /\ [][NextExec]_vars

\* C1: over any run of execute() the simulated current_time never decreases,
\* whatever events the fired events and the poll phases push.
TimeMonotone == [][current_time' >= current_time]_vars

\* two events were fired one after the other, at different times, after a poll
TimeMonotoneWitness ==
    /\ pc = "loop"
    /\ polls > 0
    /\ lastPop.id # None
    /\ current_time > lastPop.time - current_time
    /\ current_time = MaxTime

\* C2: ties on the fire time are broken by insertion order: once a container has
\* been popped for execution, no container still in the heap with the same fire
\* time was pushed before it.
FifoWithinInstant ==
    \A i \in 1..Len(events) :
        (lastPop.id # None /\ events[i].time = lastPop.time) => events[i].id > lastPop.id

(***************************************************************************)
(* DropTailQueue (node/switch/drop_tail_queue.rs).                         *)
(***************************************************************************)
DropTailQueue(limit_bytes, link) ==
    [limit_bytes |-> limit_bytes, link |-> link, pkts |-> <<>>, forced_next |-> NoPkt,
     active |-> FALSE, paused |-> FALSE]

RECURSIVE SumSizes(_)
SumSizes(packets) ==
    With(packets, LAMBDA pkts :
    IF pkts = <<>> THEN 0 ELSE get_size_bytes(Head(pkts)) + SumSizes(Tail(pkts)))

occupancy_bytes(qu) == SumSizes(qu.pkts)

headroom(qu) == qu.limit_bytes - occupancy_bytes(qu)

\* enqueue with its limit check taken out
QueueFullNever(occupancy, size, limit_bytes) == FALSE

\* the test of enqueue: "we have to drop this packet"
QueueFull(occupancy, size, limit_bytes) == occupancy + size > limit_bytes

\* enqueue: ok is FALSE for the None result (the packet is dropped)
enqueue(queue, p) ==
    With(queue, LAMBDA qu :
    IF QueueFull(occupancy_bytes(qu), get_size_bytes(p), qu.limit_bytes)
    THEN [ok |-> FALSE, q |-> qu]
    ELSE [ok |-> TRUE, q |-> [qu EXCEPT !.pkts = Append(qu.pkts, p), !.active = TRUE]])

force_tx_next(qu, p) == [qu EXCEPT !.forced_next = p, !.active = TRUE]

\* dequeue that serves the FIFO before the forced head
dequeue_fifo_first(queue) ==
    With(queue, LAMBDA qu :
    IF qu.pkts # <<>>
    THEN [pkt |-> Head(qu.pkts), q |-> [qu EXCEPT !.pkts = Tail(qu.pkts)]]
    ELSE [pkt |-> qu.forced_next, q |-> [qu EXCEPT !.forced_next = NoPkt]])

\* dequeue: the packet handed out (NoPkt for None) and the queue left
dequeue(queue) ==
    With(queue, LAMBDA qu :
    IF qu.forced_next = NoPkt
    THEN IF qu.pkts = <<>>
         THEN [pkt |-> NoPkt, q |-> qu]
         ELSE [pkt |-> Head(qu.pkts),
               q |-> [qu EXCEPT !.pkts = Tail(qu.pkts),
                                !.active = IF Len(qu.pkts) = 1 THEN FALSE ELSE qu.active]]
    ELSE [pkt |-> qu.forced_next, q |-> [qu EXCEPT !.forced_next = NoPkt]])

\* the closure NackSwitch::receive hands to discard_matching, the only one there is
DataAfter(flow, seq, p) == p.type = "Data" /\ p.flow = flow /\ p.seq > seq

\* discard_matching that also takes the packet at seq itself
discard_matching_from(qu, flow, seq) ==
    With(SelectSeq(qu.pkts, LAMBDA p : ~(p.type = "Data" /\ p.flow = flow /\ p.seq >= seq)),
         LAMBDA after_pkts :
    [dropped |-> Len(qu.pkts) - Len(after_pkts), q |-> [qu EXCEPT !.pkts = after_pkts]])

\* discard_matching with should_discard = DataAfter(flow, seq, _): how many packets
\* went and the queue left
discard_matching(qu, flow, seq) ==
    With(SelectSeq(qu.pkts, LAMBDA p : ~DataAfter(flow, seq, p)), LAMBDA after_pkts :
    [dropped |-> Len(qu.pkts) - Len(after_pkts), q |-> [qu EXCEPT !.pkts = after_pkts]])
is_active(qu) == qu.active /\ ~qu.paused

set_active(qu, a) == [qu EXCEPT !.active = a]

is_paused(qu) == qu.paused

set_paused(qu, a) == [qu EXCEPT !.paused = a]

(***************************************************************************)
(* Go-back-N flows (flow/go_back_n.rs, congcontrol.rs).  One record shape  *)
(* serves both sides; a side leaves the other side's fields untouched.     *)
(* The g_ fields observe the run and are read by no operator of the model: *)
(*   g_completions  how many times completion_time was assigned;           *)
(*   g_nacks        NACKs sent since the last in-order arrival;            *)
(*   g_last         the last call of got_data: whether nack_inflight was   *)
(*                  set on entry, whether the data was in order, and the   *)
(*                  packets handed back;                                   *)
(*   g_exec         the last call of the sender's exec: the time, the      *)
(*                  state it found, the state it left and what it returned.*)
(***************************************************************************)
ConstCwnd == 10

RetxTimeoutNanos == 1000000000

NoCall == [called |-> FALSE, inflight |-> FALSE, in_order |-> FALSE, out |-> <<>>]

NoExec == [called |-> FALSE, time |-> 0, anchor |-> 0, complete |-> FALSE, next_to_send |-> 0,
           cumulative_acked |-> 0, anchor_after |-> 0, next_after |-> 0, clear |-> FALSE,
           pkts |-> <<>>]

NewFlow(side, fi) ==
    [side |-> side, flow_info |-> fi, start_time |-> None, completion_time |-> None,
     next_to_send |-> 0, cumulative_acked |-> 0, retx_timeout |-> 0,
     cumulative_received |-> 0, nack_inflight |-> FALSE,
     g_completions |-> 0, g_nacks |-> 0, g_last |-> NoCall, g_exec |-> NoExec]

\* go_back_n::new
GoBackNSender(fi) == NewFlow("Sender", fi)

GoBackNReceiver(fi) == NewFlow("Receiver", fi)

\* what a flow's receive or exec hands back: the flow, Ok((pkts, clear)), or a panic
FlowResult(f, pkts, clear) == [flow |-> f, pkts |-> pkts, clear |-> clear, panic |-> FALSE]

FlowPanic(f) == [flow |-> f, pkts |-> <<>>, clear |-> FALSE, panic |-> TRUE]

\* maybe_send_more sending full-size packets only
FullPacketFitsAlways(f) == TRUE

\* the test of maybe_send_more for "send a full size packet and continue"
FullPacketFits(f) == f.next_to_send + f.flow_info.max_packet_length <= f.flow_info.length_bytes

\* a window test that lets one more packet out
WindowOpenOneMore(f) ==
    f.next_to_send <= f.cumulative_acked + ConstCwnd * f.flow_info.max_packet_length

\* the window test of maybe_send_more
WindowOpen(f) ==
    f.next_to_send < f.cumulative_acked + ConstCwnd * f.flow_info.max_packet_length

\* the loop of maybe_send_more; pkts are the packets made so far
RECURSIVE send_loop(_, _)
send_loop(flow, sofar) ==
    With(flow, LAMBDA f : With(sofar, LAMBDA pkts :
    LET fi == f.flow_info IN
    IF WindowOpen(f)
    THEN IF FullPacketFits(f)
         THEN send_loop([f EXCEPT !.next_to_send = f.next_to_send + fi.max_packet_length],
                        Append(pkts, Data(fi.flow_id, fi.sender_id, fi.dest_id,
                                          f.next_to_send, fi.max_packet_length)))
         ELSE IF f.next_to_send < fi.length_bytes
              THEN [flow |-> [f EXCEPT !.next_to_send = fi.length_bytes],
                    pkts |-> Append(pkts, Data(fi.flow_id, fi.sender_id, fi.dest_id,
                                               f.next_to_send, fi.length_bytes - f.next_to_send))]
              ELSE [flow |-> f, pkts |-> pkts]
    ELSE [flow |-> f, pkts |-> pkts]))

maybe_send_more(f) == send_loop(f, <<>>)

\* go_back_n that stays where it is
go_back_n_nowhere(f, go_back_to) == maybe_send_more(f)

go_back_n(f, go_back_to) == maybe_send_more([f EXCEPT !.next_to_send = go_back_to])

\* the timeout in the time unit of the run
RetxTimeout == RetxTimeoutNanos \div scn.tick

check_timeout(f, now) ==
    /\ f.retx_timeout > 0
    /\ f.completion_time = None
    /\ now - f.retx_timeout > RetxTimeout

\* the header asserts of got_ack and got_data
HeaderFromDest(f, p) ==
    /\ p.flow = f.flow_info.flow_id
    /\ p.from = f.flow_info.dest_id
    /\ p.to = f.flow_info.sender_id

HeaderFromSender(f, p) ==
    /\ p.flow = f.flow_info.flow_id
    /\ p.to = f.flow_info.dest_id
    /\ p.from = f.flow_info.sender_id

\* got_ack taking every ACK for the last one
AckCompletesAlways(f) == TRUE

\* the completion test of got_ack, after cumulative_acked moved
AckCompletes(f) == f.cumulative_acked = f.flow_info.length_bytes

\* got_ack taking every Ack for news
AckAdvancesAlways(f, ack) == TRUE

\* the test of got_ack: the Ack is ahead of what is held acknowledged; otherwise
\* "old ACK, ignore"
AckAdvances(f, ack) == ack.seq > f.cumulative_acked

got_ack(flow, ack, time) ==
    With(flow, LAMBDA f :
    IF ~HeaderFromDest(f, ack)
    THEN FlowPanic(f)
    ELSE IF ack.type = "Ack"
    THEN IF AckAdvances(f, ack)
         THEN With([f EXCEPT !.cumulative_acked = ack.seq], LAMBDA g :
              IF AckCompletes(g)
              THEN IF g.start_time = None
                   THEN FlowPanic(g)
                   ELSE FlowResult([g EXCEPT !.completion_time = time - g.start_time,
                                             !.g_completions = g.g_completions + 1],
                                   <<>>, FALSE)
              ELSE With(maybe_send_more(g), LAMBDA r : FlowResult(r.flow, r.pkts, FALSE)))
         ELSE FlowResult(f, <<>>, FALSE)
    ELSE With(go_back_n(f, ack.seq), LAMBDA r : FlowResult(r.flow, r.pkts, TRUE)))

\* GoBackNSender::receive
sender_receive(f, time, pkt) ==
    IF pkt.type \in {"Ack", "Nack"}
    THEN got_ack([f EXCEPT !.retx_timeout = time], pkt, time)
    ELSE FlowPanic(f)

\* GoBackNSender::exec
sender_exec(f, time) ==
    With(IF f.start_time = None THEN [f EXCEPT !.start_time = time] ELSE f, LAMBDA g :
    With(IF g.completion_time # None
         THEN FlowResult(g, <<>>, FALSE)
         ELSE IF ~check_timeout(g, time)
         THEN With(maybe_send_more(g), LAMBDA r : FlowResult(r.flow, r.pkts, FALSE))
         ELSE With(go_back_n([g EXCEPT !.retx_timeout = time], g.cumulative_acked), LAMBDA r :
              FlowResult(r.flow, r.pkts, TRUE)), LAMBDA res :
    [res EXCEPT !.flow.g_exec =
        [called |-> TRUE, time |-> time, anchor |-> f.retx_timeout,
         complete |-> f.completion_time # None, next_to_send |-> f.next_to_send,
         cumulative_acked |-> f.cumulative_acked, anchor_after |-> res.flow.retx_timeout,
         next_after |-> res.flow.next_to_send, clear |-> res.clear, pkts |-> res.pkts]]))

\* got_data sending a NACK for every out-of-order packet
NackSuppressedNever(f) == FALSE

\* the test of got_data on out-of-order data: a NACK is already in flight
NackSuppressed(f) == f.nack_inflight

\* the completion test of got_data, after cumulative_received moved
DataCompletes(f) == f.cumulative_received = f.flow_info.length_bytes

got_data(flow, data, time) ==
    With(flow, LAMBDA f :
    LET g == IF f.start_time = None THEN [f EXCEPT !.start_time = time] ELSE f
        call(in_order, out) ==
            [called |-> TRUE, inflight |-> f.nack_inflight, in_order |-> in_order, out |-> out]
    IN
    IF ~HeaderFromSender(g, data)
    THEN FlowPanic(g)
    ELSE IF data.seq = g.cumulative_received
    THEN LET h == [g EXCEPT !.cumulative_received = g.cumulative_received + data.length,
                            !.nack_inflight = FALSE]
             out == <<Ack(data.flow, data.to, data.from, h.cumulative_received)>>
             k == [h EXCEPT !.g_nacks = 0, !.g_last = call(TRUE, out)]
         IN  IF DataCompletes(h)
             THEN FlowResult([k EXCEPT !.completion_time = time - k.start_time,
                                       !.g_completions = k.g_completions + 1], out, FALSE)
             ELSE FlowResult(k, out, FALSE)
    ELSE IF ~NackSuppressed(g)
    THEN LET out == <<Nack(data.flow, data.to, data.from, g.cumulative_received)>> IN
         FlowResult([g EXCEPT !.nack_inflight = TRUE, !.g_nacks = g.g_nacks + 1,
                              !.g_last = call(FALSE, out)], out, FALSE)
    ELSE FlowResult([g EXCEPT !.g_last = call(FALSE, <<>>)], <<>>, FALSE))

\* GoBackNReceiver::receive
receiver_receive(f, time, pkt) ==
    IF pkt.type = "Data" THEN got_data(f, pkt, time) ELSE FlowPanic(f)

\* Flow::receive and Flow::exec, dispatched on the side
flow_receive(f, time, pkt) ==
    IF f.side = "Sender" THEN sender_receive(f, time, pkt) ELSE receiver_receive(f, time, pkt)

flow_exec(f, time) ==
    IF f.side = "Sender" THEN sender_exec(f, time) ELSE FlowResult(f, <<>>, FALSE)

(***************************************************************************)
(* Hosts (node/mod.rs).                                                    *)
(***************************************************************************)
\* a host as make_topology builds it
Host(id, link) ==
    [id |-> id, active |-> TRUE, paused |-> FALSE, link |-> link,
     active_flows |-> <<>>, to_send |-> <<>>]

\* concatenation of a sequence of sequences (flat_map)
RECURSIVE Flatten(_)
Flatten(seqs) ==
    With(seqs, LAMBDA ss : IF ss = <<>> THEN <<>> ELSE Head(ss) \o Flatten(Tail(ss)))

\* a retain that keeps every packet
RetainAll(pkts, fids) == pkts

\* pkts.retain(..): the Data packets of the flows in fids go
RetainOthers(pkts, fids) == SelectSeq(pkts, LAMBDA p : ~(p.type = "Data" /\ p.flow \in fids))

\* active_flows.iter_mut().find(..): index of the first flow with this id, 0 if none
FindFlow(flows, flow_id) ==
    IF \E i \in 1..Len(flows) : flows[i].flow_info.flow_id = flow_id
    THEN CHOOSE i \in 1..Len(flows) :
            /\ flows[i].flow_info.flow_id = flow_id
            /\ \A j \in 1..(i - 1) : flows[j].flow_info.flow_id # flow_id
    ELSE 0

\* Host::receive
host_receive(h, p, time) ==
    LET was_empty == h.to_send = <<>> IN
    IF p.type = "Pause" THEN [node |-> [h EXCEPT !.paused = TRUE], panic |-> FALSE]
    ELSE IF p.type = "Resume" THEN [node |-> [h EXCEPT !.paused = FALSE], panic |-> FALSE]
    ELSE With(FindFlow(h.active_flows, p.flow), LAMBDA i :
         IF i = 0
         THEN [node |-> h, panic |-> FALSE]
         ELSE With(flow_receive(h.active_flows[i], time, p), LAMBDA r :
              LET kept == IF r.clear THEN RetainOthers(h.to_send, {p.flow}) ELSE h.to_send
              IN  IF r.panic
                  THEN [node |-> h, panic |-> TRUE]
                  ELSE [node |-> [h EXCEPT !.active_flows[i] = r.flow,
                                           !.to_send = kept \o r.pkts,
                                           !.active = IF was_empty THEN TRUE ELSE h.active],
                        panic |-> FALSE]))

\* a host that never takes itself for paused
HostPausedNever(h) == FALSE

\* the test at the head of Host::exec: "if self.paused { return Ok(vec![]) }"
HostPaused(h) == h.paused

\* Host::exec; evs is empty for Ok(vec![]) and for Err("no more pending outgoing packets")
host_exec(h, time) ==
    IF HostPaused(h)
    THEN [node |-> h, evs |-> <<>>]
    ELSE LET n == Len(h.active_flows) IN
         With([i \in 1..n |-> flow_exec(h.active_flows[i], time)], LAMBDA rs :
         LET flows_to_clear == {h.active_flows[i].flow_info.flow_id : i \in {j \in 1..n : rs[j].clear}}
             g == [h EXCEPT !.active_flows = [i \in 1..n |-> rs[i].flow], !.active = FALSE]
         IN  With(RetainOthers(h.to_send, flows_to_clear) \o Flatten([i \in 1..n |-> rs[i].pkts]),
                  LAMBDA pkts :
             IF pkts = <<>>
             THEN [node |-> [g EXCEPT !.to_send = <<>>], evs |-> <<>>]
             ELSE [node |-> [g EXCEPT !.to_send = Tail(pkts)],
                   evs |-> <<NodeTransmitEvent(h.link, Head(pkts))>>]))

\* Host::reactivate
host_reactivate(h, l) == [node |-> [h EXCEPT !.active = TRUE], panic |-> h.link # l]

\* Host::flow_arrival
host_flow_arrival(h, f) == [h EXCEPT !.active_flows = Append(h.active_flows, f), !.active = TRUE]

(***************************************************************************)
(* The switches (node/switch/lossy_switch.rs, pfc_switch.rs,               *)
(* nack_switch.rs).  One record serves the three kinds: rack[i] is the     *)
(* egress queue toward host i-1 with PFCSwitch's already_paused flag, and  *)
(* blocked_flows is NackSwitch's map.  core is empty in every topology.    *)
(***************************************************************************)
Switch(kind, id, links) ==
    [kind |-> kind, id |-> id, active |-> FALSE,
     rack |-> [i \in 1..Len(links) |-> [q |-> links[i], already_paused |-> FALSE]],
     blocked_flows |-> <<>>, data_seen |-> 0,
     ingress_queues |-> <<>>, ingress_queue_mapping |-> <<>>]

\* rack.iter_mut().find(|q| q.link().to == to): index of the first such queue, 0 if none
RackIndexTo(rack, to) ==
    IF \E i \in 1..Len(rack) : rack[i].q.link.to = to
    THEN CHOOSE i \in 1..Len(rack) :
            /\ rack[i].q.link.to = to
            /\ \A j \in 1..(i - 1) : rack[j].q.link.to # to
    ELSE 0

\* rack.iter_mut().find(|q| q.link().from == from)
RackIndexFrom(rack, from) ==
    IF \E i \in 1..Len(rack) : rack[i].q.link.from = from
    THEN CHOOSE i \in 1..Len(rack) :
            /\ rack[i].q.link.from = from
            /\ \A j \in 1..(i - 1) : rack[j].q.link.from # from
    ELSE 0

\* what a switch's receive leaves: the switch, whether it panicked, and what it logged
Received(s, dropping, predropping) ==
    [node |-> s, panic |-> FALSE, dropping |-> dropping, predropping |-> predropping,
     nack_refused |-> FALSE]

SwitchPanic(s) ==
    [node |-> s, panic |-> TRUE, dropping |-> FALSE, predropping |-> FALSE, nack_refused |-> FALSE]

\* the enqueue-or-log-"dropping" arm shared by the three switches
enqueue_or_drop(s, p) ==
    With(RackIndexTo(s.rack, p.to), LAMBDA i :
    IF i = 0
    THEN SwitchPanic(s)
    ELSE With(enqueue(s.rack[i].q, p), LAMBDA r :
         Received([s EXCEPT !.rack[i].q = r.q], ~r.ok, FALSE)))

\* LossySwitch::receive
lossy_receive(s0, p) ==
    With([s0 EXCEPT !.active = TRUE], LAMBDA s :
    IF p.type \in {"Pause", "Resume"} THEN Received(s, FALSE, FALSE) ELSE enqueue_or_drop(s, p))

\* pause_incoming that does not look at already_paused
pause_incoming_again(s) ==
    [s EXCEPT !.rack = [i \in 1..Len(s.rack) |->
        [q |-> force_tx_next(s.rack[i].q, Pause(s.id)), already_paused |-> TRUE]]]

\* PFCSwitch::pause_incoming: a PAUSE goes into the forced slot of every queue whose
\* incoming side is not paused yet
pause_incoming(s) ==
    [s EXCEPT !.rack = [i \in 1..Len(s.rack) |->
        IF ~s.rack[i].already_paused
        THEN [q |-> force_tx_next(s.rack[i].q, Pause(s.id)), already_paused |-> TRUE]
        ELSE s.rack[i]]]

\* resume_incoming that clears the bits and sends nothing
resume_incoming_silent(s) ==
    [s EXCEPT !.rack = [i \in 1..Len(s.rack) |-> [s.rack[i] EXCEPT !.already_paused = FALSE]]]

\* PFCSwitch::resume_incoming
resume_incoming(s) ==
    [s EXCEPT !.rack = [i \in 1..Len(s.rack) |->
        IF s.rack[i].already_paused
        THEN [q |-> force_tx_next(s.rack[i].q, Resume(s.id)), already_paused |-> FALSE]
        ELSE s.rack[i]]]

\* the test of PFCSwitch::receive after a successful enqueue: "outgoing queue has filled up"
ShouldPause(qu) == headroom(qu) <= pfc_pause_threshold(qu.link)

\* the test of PFCSwitch::exec after a dequeue: "queue is sufficiently empty"
ShouldResume(qu) == headroom(qu) > pfc_resume_threshold(qu.link)

\* PFCSwitch::receive
pfc_receive(s0, p) ==
    With([s0 EXCEPT !.active = TRUE], LAMBDA s :
    IF p.type \in {"Pause", "Resume"}
    THEN With(RackIndexFrom(s.rack, p.from), LAMBDA i :
         IF i = 0
         THEN SwitchPanic(s)
         ELSE Received([s EXCEPT !.rack[i].q = set_paused(s.rack[i].q, p.type = "Pause")],
                       FALSE, FALSE))
    ELSE With(RackIndexTo(s.rack, p.to), LAMBDA i :
         IF i = 0
         THEN SwitchPanic(s)
         ELSE With(enqueue(s.rack[i].q, p), LAMBDA r :
              With([s EXCEPT !.rack[i].q = r.q], LAMBDA t :
                  IF ~r.ok
                  THEN Received(t, TRUE, FALSE)
                  ELSE IF ShouldPause(r.q)
                  THEN Received(pause_incoming(t), FALSE, FALSE)
                  ELSE Received(t, FALSE, FALSE)))))

\* HashMap::insert and HashMap::remove
MapInsert(m, k, v) == [x \in DOMAIN m \cup {k} |-> IF x = k THEN v ELSE m[x]]

MapRemove(m, k) == [x \in DOMAIN m \ {k} |-> m[x]]

\* the pause test on the egress queue's share alone, without the ingress occupancy
IngressShouldPauseShareOnly(occ, qu, num_links) ==
    pfc_pause_threshold(qu.link) > headroom(qu) \div num_links

\* the test of IngressPFCSwitch::receive: "PAUSE this ingress queue"; occ is the
\* virtual occupancy of the ingress, qu the egress queue after the enqueue
IngressShouldPause(occ, qu, num_links) ==
    occ + pfc_pause_threshold(qu.link) > headroom(qu) \div num_links

\* the u32 subtraction headroom - pfc_resume_threshold goes below 0
ResumeUnderflow(qu) == headroom(qu) < pfc_resume_threshold(qu.link)

\* the test of IngressPFCSwitch::exec after a dequeue from qu.  Without overflow
\* checks a difference below 0 wraps to 2^32 minus at most the resume threshold, and
\* that over num_links is above every occupancy a queue limit allows.
IngressShouldResume(occ, qu, num_links) ==
    IF ResumeUnderflow(qu) THEN TRUE
    ELSE occ < (headroom(qu) - pfc_resume_threshold(qu.link)) \div num_links

\* an enqueue that leaves the ingress occupancy as it was
ChargeIngressNothing(occ, p) == occ

\* the and_modify of IngressPFCSwitch::receive: the occupancy after p is charged
ChargeIngress(occ, p) == occ + get_size_bytes(p)

\* IngressPFCSwitch::receive; l is the link the packet came in on
ingress_receive(s0, p, l) ==
    IF p.type \in {"Pause", "Resume"} THEN pfc_receive(s0, p)
    ELSE
    With([s0 EXCEPT !.active = TRUE], LAMBDA s :
    With(RackIndexTo(s.rack, p.to), LAMBDA i :
    IF i = 0
    THEN SwitchPanic(s)
    ELSE With(enqueue(s.rack[i].q, p), LAMBDA r :
         IF ~r.ok
         THEN Received(s, TRUE, FALSE)
         ELSE LET occ == ChargeIngress(IF l.from \in DOMAIN s.ingress_queues
                                       THEN s.ingress_queues[l.from] ELSE 0, p)
                  mapping == IF p \in DOMAIN s.ingress_queue_mapping
                             THEN s.ingress_queue_mapping
                             ELSE MapInsert(s.ingress_queue_mapping, p, l.from)
              IN
              With([s EXCEPT !.rack[i].q = r.q,
                             !.ingress_queues = MapInsert(s.ingress_queues, l.from, occ),
                             !.ingress_queue_mapping = mapping], LAMBDA t :
              With(RackIndexTo(t.rack, l.from), LAMBDA j :
              IF IngressShouldPause(occ, r.q, Len(t.rack)) /\ j # 0 /\ ~t.rack[j].already_paused
              THEN Received([t EXCEPT !.rack[j] =
                                [q |-> force_tx_next(t.rack[j].q, Pause(t.id)),
                                 already_paused |-> TRUE]], FALSE, FALSE)
              ELSE Received(t, FALSE, FALSE))))))

\* the blocked-flow filter that lets everything through
PreDroppedNever(s, p) == FALSE

\* the filter of NackSwitch::receive: the flow of Data p is blocked on another seq,
\* "this packet is going to be retransmitted anyway. drop it"
PreDropped(s, p) ==
    p.flow \in DOMAIN s.blocked_flows /\ p.seq # s.blocked_flows[p.flow]

\* NackSwitch::receive
nack_receive(s0, p) ==
    With([s0 EXCEPT !.active = TRUE], LAMBDA s :
    IF p.type \in {"Pause", "Resume"} THEN Received(s, FALSE, FALSE)
    ELSE IF p.type \in {"Nack", "Ack"} THEN enqueue_or_drop(s, p)
    ELSE LET is_blocked == p.flow \in DOMAIN s.blocked_flows
             progress_flow == is_blocked /\ p.seq = s.blocked_flows[p.flow]
         IN
         IF PreDropped(s, p)
         THEN Received(s, FALSE, TRUE)
         ELSE With(IF progress_flow
                   THEN [s EXCEPT !.blocked_flows = MapRemove(s.blocked_flows, p.flow)]
                   ELSE s, LAMBDA s1 :
              With(RackIndexTo(s1.rack, p.to), LAMBDA i :
              IF i = 0
              THEN SwitchPanic(s1)
              ELSE With(enqueue(s1.rack[i].q, p), LAMBDA r :
                   IF r.ok
                   THEN Received([s1 EXCEPT !.rack[i].q = r.q], FALSE, FALSE)
                   ELSE With(discard_matching(s1.rack[i].q, p.flow, p.seq),
                             LAMBDA d :
                        With([s1 EXCEPT !.blocked_flows = MapInsert(s1.blocked_flows, p.flow, p.seq),
                                        !.rack[i].q = d.q], LAMBDA s2 :
                        LET nack == Nack(p.flow, p.to, p.from, p.seq)
                            j == RackIndexTo(s2.rack, nack.to)
                        IN
                        IF j = 0
                        THEN SwitchPanic(s2)
                        ELSE With(enqueue(s2.rack[j].q, nack), LAMBDA e :
                             IF e.ok
                             THEN Received([s2 EXCEPT !.rack[j].q = e.q], TRUE, FALSE)
                             ELSE [node |-> s2, panic |-> TRUE, dropping |-> TRUE,
                                   predropping |-> FALSE, nack_refused |-> TRUE])))))))

\* which Data packet NackTestSwitch drops
DroppedDataPacket == 3

\* NackTestSwitch::receive (tests::nack_test_switch): the third Data packet is
\* dropped and answered with a NACK, everything else goes to NackSwitch::receive
nack_test_receive(s0, p) ==
    IF p.type # "Data" THEN nack_receive(s0, p)
    ELSE With([s0 EXCEPT !.data_seen = s0.data_seen + 1], LAMBDA s :
         IF s.data_seen # DroppedDataPacket THEN nack_receive(s, p)
         ELSE LET nack_pkt == Nack(p.flow, p.to, p.from, p.seq)
                  j == RackIndexTo(s.rack, nack_pkt.to)
              IN  With([s EXCEPT !.blocked_flows = MapInsert(s.blocked_flows, p.flow, p.seq)],
                       LAMBDA s1 :
                  IF j = 0
                  THEN SwitchPanic(s1)
                  ELSE With(enqueue(s1.rack[j].q, nack_pkt), LAMBDA e :
                       IF e.ok
                       THEN Received([s1 EXCEPT !.rack[j].q = e.q], FALSE, FALSE)
                       ELSE SwitchPanic(s1))))

\* Switch::receive, dispatched on the kind of switch; l is the link of the
\* LinkTransmitEvent
switch_receive(s, p, l) ==
    CASE s.kind = "lossy" -> lossy_receive(s, p)
      [] s.kind = "pfc" -> pfc_receive(s, p)
      [] s.kind = "ingress" -> ingress_receive(s, p, l)
      [] s.kind = "nacktest" -> nack_test_receive(s, p)
      [] OTHER -> nack_receive(s, p)

\* one queue's turn in exec: an active queue is set inactive and hands out a packet
step_queue(e) ==
    IF ~is_active(e.q)
    THEN [entry |-> e, evs |-> <<>>, resume |-> FALSE]
    ELSE With(dequeue(set_active(e.q, FALSE)), LAMBDA d :
         IF d.pkt = NoPkt
         THEN [entry |-> [e EXCEPT !.q = d.q], evs |-> <<>>, resume |-> FALSE]
         ELSE [entry |-> [e EXCEPT !.q = d.q],
               evs |-> <<NodeTransmitEvent(d.q.link, d.pkt)>>,
               resume |-> ShouldResume(d.q)])

\* LossySwitch::exec, NackSwitch::exec and PFCSwitch::exec (the last one resumes)
plain_exec(s, time) ==
    LET n == Len(s.rack) IN
    With([i \in 1..n |-> step_queue(s.rack[i])], LAMBDA steps :
    LET t == [s EXCEPT !.rack = [i \in 1..n |-> steps[i].entry]]
        should_resume == s.kind = "pfc" /\ \E i \in 1..n : steps[i].resume
    IN  [node |-> IF should_resume THEN resume_incoming(t) ELSE t,
         evs |-> Flatten([i \in 1..n |-> steps[i].evs]),
         panic |-> FALSE])

\* the queues of IngressPFCSwitch::exec from the i-th on, in order: an active queue is
\* set inactive and hands out a packet; for a Data, Ack or Nack the ingress it came
\* from is looked up and its occupancy taken down, and the ingress is noted for a
\* RESUME when it is low enough.  The unwrap() of the lookup panics on a packet the
\* mapping does not hold.  A u32 subtraction that would go below 0 panics in a build
\* with overflow checks and wraps in one without; the run is followed past a wrapped
\* headroom difference, and ends at an occupancy below the packet's size in either
\* build.  why names the panic, underflow tells that a headroom difference went
\* below 0.
RECURSIVE ingress_step(_, _, _, _, _)
ingress_step(s, i, evs, queue_to_resume, underflow) ==
    IF i > Len(s.rack)
    THEN [node |-> s, evs |-> evs, queue_to_resume |-> queue_to_resume, panic |-> FALSE,
          why |-> "none", underflow |-> underflow]
    ELSE IF ~is_active(s.rack[i].q)
    THEN ingress_step(s, i + 1, evs, queue_to_resume, underflow)
    ELSE With(dequeue(set_active(s.rack[i].q, FALSE)), LAMBDA d :
         With([s EXCEPT !.rack[i].q = d.q], LAMBDA t :
         LET Stop(why, u) == [node |-> t, evs |-> evs, queue_to_resume |-> queue_to_resume,
                              panic |-> TRUE, why |-> why, underflow |-> u]
         IN
         IF d.pkt = NoPkt
         THEN ingress_step(t, i + 1, evs, queue_to_resume, underflow)
         ELSE IF d.pkt.type \in {"Pause", "Resume"}
         THEN ingress_step(t, i + 1, Append(evs, NodeTransmitEvent(d.q.link, d.pkt)),
                           queue_to_resume, underflow)
         ELSE IF \/ d.pkt \notin DOMAIN t.ingress_queue_mapping
                 \/ t.ingress_queue_mapping[d.pkt] \notin DOMAIN t.ingress_queues
         THEN Stop("unwrap", underflow)
         ELSE IF t.ingress_queues[t.ingress_queue_mapping[d.pkt]] < get_size_bytes(d.pkt)
         THEN Stop("occupancy", underflow)
         ELSE IF ResumeUnderflow(d.q) /\ scn.overflow_checks
         THEN Stop("headroom", TRUE)
         ELSE LET ingress_queue == t.ingress_queue_mapping[d.pkt]
                  occ == t.ingress_queues[ingress_queue] - get_size_bytes(d.pkt)
              IN  ingress_step([t EXCEPT !.ingress_queue_mapping =
                                             MapRemove(t.ingress_queue_mapping, d.pkt),
                                         !.ingress_queues =
                                             MapInsert(t.ingress_queues, ingress_queue, occ)],
                               i + 1,
                               Append(evs, NodeTransmitEvent(d.q.link, d.pkt)),
                               IF IngressShouldResume(occ, d.q, Len(t.rack))
                               THEN ingress_queue ELSE queue_to_resume,
                               underflow \/ ResumeUnderflow(d.q))))

\* IngressPFCSwitch::exec
ingress_exec(s, time) ==
    With(ingress_step(s, 1, <<>>, None, FALSE), LAMBDA r :
    With(IF r.queue_to_resume = None THEN 0 ELSE RackIndexTo(r.node.rack, r.queue_to_resume),
         LAMBDA j :
    [node |-> IF ~r.panic /\ j # 0 /\ r.node.rack[j].already_paused
              THEN [r.node EXCEPT !.rack[j] =
                       [q |-> force_tx_next(r.node.rack[j].q, Resume(r.node.id)),
                        already_paused |-> FALSE]]
              ELSE r.node,
     evs |-> r.evs,
     panic |-> r.panic]))

\* Switch::exec, dispatched on the kind of switch
switch_exec(s, time) ==
    IF s.kind = "ingress" THEN ingress_exec(s, time) ELSE plain_exec(s, time)

\* reactivate that leaves the queue as it is
switch_reactivate_skipped(s, l) == [node |-> s, panic |-> FALSE]

\* Switch::reactivate
switch_reactivate(s, l) ==
    With(RackIndexTo(s.rack, l.to), LAMBDA i :
    IF l.from # s.id \/ i = 0
    THEN [node |-> s, panic |-> TRUE]
    ELSE [node |-> [s EXCEPT !.rack[i].q = set_active(s.rack[i].q, TRUE)], panic |-> FALSE])

(***************************************************************************)
(* SpecQueue: one DropTailQueue under any sequence of the operations of    *)
(* the Queue trait.  Packet sizes and limits stay far below 2^32, as in    *)
(* every scenario of lib.rs, so the u32 sums are taken exactly.            *)
(***************************************************************************)
MaxQueueOps == 5

MaxQueueSeq == 1

QueueLimits == {0, 1500, 1549, 3040}

QueuePackets ==
    {Data(0, 0, 1, s * 1460, 1460) : s \in 0..MaxQueueSeq}
        \cup {Data(1, 0, 1, 0, 100), Ack(0, 1, 0, 1460), Nack(0, 1, 0, 0), Pause(2)}

\* one call: the queue it leaves, whether it refused a packet, and the number a
\* discard_matching returned (0 for the other operations)
QCall(qu, refused, dropped) ==
    /\ pc = "queue"
    /\ gh.ops < MaxQueueOps
    /\ q' = qu
    /\ gh' = [ops |-> gh.ops + 1, refused |-> gh.refused + (IF refused THEN 1 ELSE 0),
              dropped |-> gh.dropped + dropped]
    /\ UNCHANGED <<events, current_time, pc, pushed, lastPop, polls, hosts, sw, scn, lookup>>

QStep(qu, refused) == QCall(qu, refused, 0)

QEnqueue(p) == LET r == enqueue(q, p) IN QStep(r.q, ~r.ok)

QForceTxNext(p) == QStep(force_tx_next(q, p), FALSE)

QDequeue == QStep(dequeue(q).q, FALSE)

QDiscardMatching(seq) == LET r == discard_matching(q, 0, seq) IN QCall(r.q, FALSE, r.dropped)

QSetActive(a) == QStep(set_active(q, a), FALSE)

QSetPaused(a) == QStep(set_paused(q, a), FALSE)

InitQueue ==
    /\ q \in {DropTailQueue(l, Link(0, 0, FALSE, 0, 1)) : l \in QueueLimits}
    /\ gh = [ops |-> 0, refused |-> 0, dropped |-> 0]
    /\ pc = "queue"
    /\ events = <<>>
    /\ current_time = 0
    /\ pushed = 0
    /\ lastPop = NoContainer
    /\ polls = 0
    /\ hosts = <<>>
    /\ sw = <<>>
    /\ scn = <<>>
    /\ lookup = NoLookup

NextQueue ==
    \/ \E p \in QueuePackets : QEnqueue(p)
    \/ \E p \in QueuePackets : QForceTxNext(p)
    \/ QDequeue
    \/ \E seq \in {0, 1460} : QDiscardMatching(seq)
    \/ \E a \in BOOLEAN : QSetActive(a)
    \/ \E a \in BOOLEAN : QSetPaused(a)

SpecQueue == InitQueue /\ [][NextQueue]_vars

\* C4: in every reachable state of a DropTailQueue the wire sizes of the packets in
\* its FIFO sum to at most limit_bytes, so headroom never underflows.
QueueLimit == pc = "queue" => (occupancy_bytes(q) <= q.limit_bytes /\ headroom(q) >= 0)

\* a queue filled exactly to its limit by several packets has refused another one
\* while a forced packet waits in its slot
QueueLimitWitness ==
    /\ pc = "queue"
    /\ gh.refused > 0
    /\ Len(q.pkts) >= 2
    /\ occupancy_bytes(q) = q.limit_bytes
    /\ q.forced_next # NoPkt


(***************************************************************************)
(* Topology::lookup_nodes (topology/mod.rs).  A node handed out is a       *)
(* reference into the hosts or the switches vector: which vector and the   *)
(* position in it; its id is the id field of the node found there.         *)
(***************************************************************************)
NodeRef(kind, pos) == [kind |-> kind, pos |-> pos]

NoRef == NodeRef("none", 0)

\* Node::id of the node behind a reference
node_id(hs, sws, n) == IF n.kind = "host" THEN hs[n.pos].id ELSE sws[n.pos].id

\* a stable sort of records on the field f: each element goes behind the elements
\* already placed whose key is not greater
RECURSIVE sort_by_field(_, _)
sort_by_field(s, f) ==
    IF s = <<>> THEN <<>>
    ELSE With(sort_by_field(SubSeq(s, 1, Len(s) - 1), f), LAMBDA sorted :
         LET x == s[Len(s)]
             k == Cardinality({i \in 1..Len(sorted) : sorted[i][f] <= x[f]})
         IN  SubSeq(sorted, 1, k) \o <<x>> \o SubSeq(sorted, k + 1, Len(sorted)))

\* host_ids.sort_by_key(|(_, &id)| id)
sort_by_id(pairs) == sort_by_field(pairs, "id")

\* the result left in the order the merges produced it
sorted_by_index_skipped(items) == items

\* .sorted_by_key(|x| x.0)
sorted_by_index(items) == sort_by_field(items, "idx")

\* the Right arm of merge_by_indices taken for a node that was found
RightFound(x) == [ok |-> TRUE, idx |-> x.idx, node |-> NoRef]

\* the Right arm of merge_by_indices: Err("Node not found")
Right(x) == [ok |-> FALSE, idx |-> x.idx, node |-> NoRef]

\* the Both arm of merge_by_indices: Ok((wanted_idx, h))
Both(n, x) == [ok |-> TRUE, idx |-> x.idx, node |-> n.ref]

\* merge_by_indices: nodes and wanted ids, both in id order, are merged on the id;
\* a node nobody wants is skipped (Left)
RECURSIVE merge_by_indices(_, _)
merge_by_indices(nodes, indices) ==
    IF indices = <<>> THEN <<>>
    ELSE IF nodes = <<>> THEN <<Right(Head(indices))>> \o merge_by_indices(nodes, Tail(indices))
    ELSE IF Head(nodes).id < Head(indices).id THEN merge_by_indices(Tail(nodes), indices)
    ELSE IF Head(nodes).id > Head(indices).id
         THEN <<Right(Head(indices))>> \o merge_by_indices(nodes, Tail(indices))
    ELSE <<Both(Head(nodes), Head(indices))>> \o merge_by_indices(Tail(nodes), Tail(indices))

\* Topology::lookup_nodes on the vectors hs and sws
lookup_nodes(hs, sws, ids) ==
    LET pairs == [i \in 1..Len(ids) |-> [idx |-> i - 1, id |-> ids[i]]]
        host_ids == sort_by_id(SelectSeq(pairs, LAMBDA x : x.id < Len(hs)))
        sw_ids == sort_by_id(SelectSeq(pairs, LAMBDA x : ~(x.id < Len(hs))))
        h == merge_by_indices([i \in 1..Len(hs) |-> [ref |-> NodeRef("host", i), id |-> hs[i].id]],
                              host_ids)
        s == merge_by_indices([i \in 1..Len(sws) |-> [ref |-> NodeRef("switch", i), id |-> sws[i].id]],
                              sw_ids)
    IN  With(h \o s, LAMBDA all :
        IF \E i \in 1..Len(all) : ~all[i].ok
        THEN [called |-> TRUE, ids |-> ids, ok |-> FALSE, nodes |-> <<>>]
        ELSE With(sorted_by_index(all), LAMBDA sorted :
             [called |-> TRUE, ids |-> ids, ok |-> TRUE,
              nodes |-> [i \in 1..Len(sorted) |-> sorted[i].node]]))

\* Event::affected_node_ids
affected_node_ids(ev) ==
    CASE ev.kind = "FlowArrival" -> <<ev.info.sender_id, ev.info.dest_id>>
      [] ev.kind = "NodeTransmit" -> <<ev.link.from>>
      [] ev.kind = "LinkTransmit" -> <<ev.link.to>>
      [] OTHER -> <<>>

(***************************************************************************)
(* Spec: whole simulations.  A scenario fixes the switch kind, the         *)
(* arguments of make_topology and the flow arrivals pushed before          *)
(* execute(); from there the run is the executor's loop over the topology. *)
(* hosts[i] is the host with id i-1; the switch has id num_hosts.          *)
(***************************************************************************)
FlowInfo(flow_id, sender_id, dest_id, length_bytes, max_packet_length) ==
    [flow_id |-> flow_id, sender_id |-> sender_id, dest_id |-> dest_id,
     length_bytes |-> length_bytes, max_packet_length |-> max_packet_length]

Arrival(info, at) == [info |-> info, at |-> at]

Scenario(kind, num_hosts, queue_length_bytes, access_link_bandwidth, per_link_propagation_delay, flows) ==
    [kind |-> kind, num_hosts |-> num_hosts, queue_length_bytes |-> queue_length_bytes,
     access_link_bandwidth |-> access_link_bandwidth,
     per_link_propagation_delay |-> per_link_propagation_delay, flows |-> flows,
     pkts |-> <<>>, tick |-> 1, overflow_checks |-> TRUE]

\* The scenario c with time counted in ticks of n nanoseconds: delays and start
\* times are divided by n and the bandwidth is taken per 10^9 ticks.  When n divides
\* every time of the run (a packet of k bytes takes 8000 k ns on a 1 Mb/s link, the
\* propagation delay is 10^6 ns, the flows start at multiples of 10^8 ns) the run
\* in ticks is the run in nanoseconds with every time divided by n.  It is used for
\* the runs that end after 2^31 ns, the largest time the model checker can hold.
InTicks(c, n) ==
    [c EXCEPT !.tick = n,
              !.access_link_bandwidth = c.access_link_bandwidth * n,
              !.per_link_propagation_delay = c.per_link_propagation_delay \div n,
              !.flows = [i \in 1..Len(c.flows) |->
                            [c.flows[i] EXCEPT !.at = c.flows[i].at \div n]]]

\* the switches of the PFCSwitchFamily: their links are PFC-enabled
PfcKinds == {"pfc", "ingress"}

\* OneBigSwitch::make_topology
make_hosts(c) ==
    [i \in 1..c.num_hosts |->
        Host(i - 1, Link(c.per_link_propagation_delay, c.access_link_bandwidth,
                         c.kind \in PfcKinds, i - 1, c.num_hosts))]

make_switch(c) ==
    Switch(c.kind, c.num_hosts,
           [i \in 1..c.num_hosts |->
               DropTailQueue(c.queue_length_bytes,
                             Link(c.per_link_propagation_delay, c.access_link_bandwidth,
                                  c.kind \in PfcKinds, c.num_hosts, i - 1))])

\* Host::push_pkt
push_pkt(h, p) == [h EXCEPT !.to_send = Append(h.to_send, p)]

\* the packets a test hands to push_pkt before execute(), each on the host it is from
RECURSIVE push_pkts(_, _)
push_pkts(hs, pkts) ==
    IF pkts = <<>> THEN hs
    ELSE push_pkts([hs EXCEPT ![Head(pkts).from + 1] = push_pkt(hs[Head(pkts).from + 1], Head(pkts))],
                   Tail(pkts))

\* Executor::poll_nodes: the active hosts in id order, then the switch if active, run
\* exec; what they return is pushed at the current time
poll_nodes(now, hs, s, st) ==
    LET n == Len(hs) IN
    With([i \in 1..n |-> IF hs[i].active THEN host_exec(hs[i], now)
                         ELSE [node |-> hs[i], evs |-> <<>>]], LAMBDA hr :
    With(IF s.active THEN switch_exec(s, now) ELSE [node |-> s, evs |-> <<>>, panic |-> FALSE],
         LAMBDA sr :
        [hosts |-> [i \in 1..n |-> hr[i].node],
         sw |-> sr.node,
         panic |-> sr.panic,
         st |-> push_all(now, Flatten([i \in 1..n |-> hr[i].evs]) \o sr.evs, st)]))

\* Topology::lookup_nodes succeeds on this id
IsHost(id) == id >= 0 /\ id < Len(hosts)

IsSwitch(id) == id = Len(hosts)

\* execute() without its poll branch: whatever is popped runs at once
DueAtOnce == pc = "polled" \/ (pc = "loop" /\ events # <<>>)

\* the Some(evc) arm takes evc as it is, or has polled and popped again
Due ==
    \/ pc = "polled"
    \/ /\ pc = "loop"
       /\ events # <<>>
       /\ TimeAsserted(events[1].time, current_time)
       /\ ~(events[1].time > current_time)

\* what is left of execute() after the event popped by p has run: time moved to its
\* fire time, the events it returned are pushed, and a panic or an Err ends the run
Fired(p, hs, s, evs, panic, err, g) ==
    \E st \in {push_all(p.top.time, evs, [events |-> p.data, pushed |-> pushed])} :
    \E lk \in {lookup_nodes(hosts, <<sw>>, affected_node_ids(p.top.ev))} :
    \E failed \in {err \/ ~lk.ok} :
    /\ lookup' = lk
    /\ current_time' = p.top.time
    /\ lastPop' = p.top
    /\ hosts' = IF failed THEN hosts ELSE hs
    /\ sw' = IF failed THEN sw ELSE s
    /\ gh' = IF failed THEN gh ELSE g
    /\ events' = IF panic \/ failed THEN p.data ELSE st.events
    /\ pushed' = IF panic \/ failed THEN pushed ELSE st.pushed
    /\ pc' = IF failed THEN "error" ELSE IF panic THEN "panic" ELSE "loop"
    /\ UNCHANGED <<polls, scn, q>>

\* the assertion of execute() fails on the event just popped
AssertFailed ==
    /\ pc' = "panic"
    /\ UNCHANGED <<events, current_time, pushed, lastPop, polls, hosts, sw, scn, gh, q, lookup>>

\* the scenario pushes its next flow arrival (Executor::push before execute())
Push ==
    /\ pc = "setup"
    /\ pushed < Len(scn.flows)
    /\ \E a \in {scn.flows[pushed + 1]} :
       \E st \in {push_onto(current_time, FlowArrivalEvent(a.info, a.at), HeapState)} :
           /\ events' = st.events
           /\ pushed' = st.pushed
    /\ UNCHANGED <<current_time, pc, lastPop, polls, hosts, sw, scn, gh, q, lookup>>

\* the call of execute()
Execute ==
    /\ pc = "setup"
    /\ pushed = Len(scn.flows)
    /\ pc' = "loop"
    /\ UNCHANGED <<events, current_time, pushed, lastPop, polls, hosts, sw, scn, gh, q, lookup>>

\* execute(): the popped event lies in the future: it is pushed back and the active
\* nodes are polled (the assertion fails instead if it lies in the past)
PollNodes ==
    /\ pc = "loop"
    /\ events # <<>>
    /\ ~TimeAsserted(events[1].time, current_time) \/ events[1].time > current_time
    /\ IF ~TimeAsserted(events[1].time, current_time)
       THEN AssertFailed
       ELSE \E r \in {poll_nodes(current_time, hosts, sw,
                                   [events |-> Repushed(events), pushed |-> pushed])} :
                /\ events' = r.st.events
                /\ pushed' = r.st.pushed
                /\ hosts' = r.hosts
                /\ sw' = r.sw
                /\ polls' = polls + 1
                /\ pc' = IF r.panic THEN "panic" ELSE "polled"
                /\ UNCHANGED <<current_time, lastPop, scn, gh, q, lookup>>

\* execute() runs a FlowArrivalEvent: both ends get their side of a new flow
FireFlowArrival ==
    /\ Due
    /\ events[1].ev.kind = "FlowArrival"
    /\ \E p \in {heap_pop(events)} :
       LET fi == p.top.ev.info
           snd == fi.sender_id + 1
           rcv == fi.dest_id + 1
       IN  IF ~(IsHost(fi.sender_id) /\ IsHost(fi.dest_id) /\ fi.sender_id # fi.dest_id)
           THEN Fired(p, hosts, sw, <<>>, FALSE, TRUE, gh)
           ELSE Fired(p,
                      [hosts EXCEPT ![snd] = host_flow_arrival(hosts[snd], GoBackNSender(fi)),
                                    ![rcv] = host_flow_arrival(hosts[rcv], GoBackNReceiver(fi))],
                      sw, <<>>, FALSE, FALSE, gh)

\* execute() runs a NodeTransmitEvent: the sending node is reactivated and the packet
\* goes onto the link
FireNodeTransmit ==
    /\ Due
    /\ events[1].ev.kind = "NodeTransmit"
    /\ \E p \in {heap_pop(events)} :
       LET l == p.top.ev.link
           out == <<LinkTransmitEvent(l, p.top.ev.pkt)>>
       IN  IF IsHost(l.from)
           THEN \E r \in {host_reactivate(hosts[l.from + 1], l)} :
                Fired(p, [hosts EXCEPT ![l.from + 1] = r.node], sw, out, r.panic, FALSE, gh)
           ELSE IF IsSwitch(l.from)
           THEN \E r \in {switch_reactivate(sw, l)} :
                Fired(p, hosts, r.node, out, r.panic, FALSE, gh)
           ELSE Fired(p, hosts, sw, <<>>, FALSE, TRUE, gh)

\* execute() runs a LinkTransmitEvent whose link ends at a host: Host::receive
FireLinkTransmitToHost ==
    /\ Due
    /\ events[1].ev.kind = "LinkTransmit"
    /\ IsHost(events[1].ev.link.to)
    /\ \E p \in {heap_pop(events)} :
       \E i \in {p.top.ev.link.to + 1} :
       \E r \in {host_receive(hosts[i], p.top.ev.pkt, p.top.time)} :
           Fired(p, [hosts EXCEPT ![i] = r.node], sw, <<>>, r.panic, FALSE, gh)

\* execute() runs a LinkTransmitEvent whose link ends at the switch: Switch::receive
FireLinkTransmitToSwitch ==
    /\ Due
    /\ events[1].ev.kind = "LinkTransmit"
    /\ ~IsHost(events[1].ev.link.to)
    /\ \E p \in {heap_pop(events)} :
       \E r \in {switch_receive(sw, p.top.ev.pkt, p.top.ev.link)} :
       LET g == [gh EXCEPT !.dropping = gh.dropping + (IF r.dropping THEN 1 ELSE 0),
                           !.predropping = gh.predropping + (IF r.predropping THEN 1 ELSE 0),
                           !.nack_refused = gh.nack_refused \/ r.nack_refused]
       IN  IF ~IsSwitch(p.top.ev.link.to)
           THEN Fired(p, hosts, sw, <<>>, FALSE, TRUE, gh)
           ELSE Fired(p, hosts, r.node, <<>>, r.panic, FALSE, g)

\* execute(): the None arm: the nodes are polled one last time and the run ends if
\* the heap stays empty
Drain ==
    /\ pc = "loop"
    /\ events = <<>>
    /\ \E r \in {poll_nodes(current_time, hosts, sw, HeapState)} :
         /\ events' = r.st.events
         /\ pushed' = r.st.pushed
         /\ hosts' = r.hosts
         /\ sw' = r.sw
         /\ pc' = IF r.panic THEN "panic" ELSE IF r.st.events = <<>> THEN "done" ELSE "loop"
    /\ polls' = polls + 1
    /\ UNCHANGED <<current_time, lastPop, scn, gh, q, lookup>>


\* the scenarios of lib.rs: topology arguments and flows
QueueLengthBytes == 15000

AccessLinkBandwidth == 1000000

PerLinkPropagationDelay == 1000000

MaxPacketLength == 1460

FlowStart == 1000000000

\* send_one_flow: a 3 packet flow between two hosts
SendOneFlow(kind) ==
    Scenario(kind, 2, QueueLengthBytes, AccessLinkBandwidth, PerLinkPropagationDelay,
             <<Arrival(FlowInfo(1, 0, 1, 3 * MaxPacketLength, MaxPacketLength), FlowStart)>>)

\* two_flows_scenario: two 30 packet flows from hosts 1 and 2 to host 0
TwoFlows(kind) ==
    Scenario(kind, 3, QueueLengthBytes, AccessLinkBandwidth, PerLinkPropagationDelay,
             <<Arrival(FlowInfo(1, 1, 0, 30 * MaxPacketLength, MaxPacketLength), FlowStart),
               Arrival(FlowInfo(2, 2, 0, 30 * MaxPacketLength, MaxPacketLength), FlowStart)>>)

\* one_flow_with_nack: a 10 packet flow through the NackTestSwitch
OneFlowWithNack ==
    Scenario("nacktest", 2, QueueLengthBytes, AccessLinkBandwidth, PerLinkPropagationDelay,
             <<Arrival(FlowInfo(1, 0, 1, 10 * MaxPacketLength, MaxPacketLength), FlowStart)>>)

SwitchKinds == {"lossy", "pfc", "nack"}

\* IndependentVictimFlowScenario (victim_sender = 0) and
\* SharedIngressVictimFlowScenario (victim_sender = 2): on 4 hosts, a 30 packet
\* victim flow to host 1 from 1.1 s and two 300 packet flows from hosts 2 and 3 to
\* host 0 from 1 s
VictimFlow(kind, victim_sender) ==
    Scenario(kind, 4, QueueLengthBytes, AccessLinkBandwidth, PerLinkPropagationDelay,
             <<Arrival(FlowInfo(0, victim_sender, 1, 30 * MaxPacketLength, MaxPacketLength),
                       1100000000),
               Arrival(FlowInfo(1, 2, 0, 300 * MaxPacketLength, MaxPacketLength), FlowStart),
               Arrival(FlowInfo(2, 3, 0, 300 * MaxPacketLength, MaxPacketLength), FlowStart)>>)

NanosPerTick == 1000

\* victim_flow_lossy, victim_flow_pfc, victim_flow_pfc_ingress, victim_flow_nacks,
\* sharedingress_victim_flow_pfc_ingress and two_flows_pfc_ingress
VictimScenarios ==
    {InTicks(VictimFlow(k, 0), NanosPerTick) : k \in {"lossy", "pfc", "ingress", "nack"}}
        \cup {InTicks(VictimFlow("ingress", 2), NanosPerTick)}
        \cup {InTicks(TwoFlows("ingress"), NanosPerTick)}

\* send_one_packet: no flow, one Data packet waiting in host 0 for host 1
SendOnePacket(kind, length) ==
    [Scenario(kind, 2, QueueLengthBytes, AccessLinkBandwidth, PerLinkPropagationDelay, <<>>)
        EXCEPT !.pkts = <<Data(0, 0, 1, 0, length)>>]

\* the payload lengths of the packet of SendOnePacket
OnePacketLengths == {1, 500, MaxPacketLength}

\* smaller runs of the same shape: queues of a few packets, flows of a few packets
\* with or without a short last packet, all starting at time 0
MaxQueuePackets == 2

MaxFlowPackets == 3

SmallQueues == {k * Mtu : k \in 1..MaxQueuePackets}

ShortFlows == {n * MaxPacketLength + tail : n \in 1..MaxFlowPackets, tail \in {0, 500}}

\* hosts 1 and 2 send to host 0 while hosts 0 and 2 send to host 1
CrossFlows(kind, queue_length_bytes, length_bytes) ==
    Scenario(kind, 3, queue_length_bytes, AccessLinkBandwidth, PerLinkPropagationDelay,
             <<Arrival(FlowInfo(1, 1, 0, length_bytes, MaxPacketLength), 0),
               Arrival(FlowInfo(2, 2, 0, length_bytes, MaxPacketLength), 0),
               Arrival(FlowInfo(3, 0, 1, length_bytes, MaxPacketLength), 0),
               Arrival(FlowInfo(4, 2, 1, length_bytes, MaxPacketLength), 0)>>)

\* hosts 1 and 2 send to host 0, and a one packet flow from host 1 to host 2 arrives
\* more than the retransmit timeout later
LateFlow(kind, queue_length_bytes, length_bytes) ==
    Scenario(kind, 3, queue_length_bytes, AccessLinkBandwidth, PerLinkPropagationDelay,
             <<Arrival(FlowInfo(1, 1, 0, length_bytes, MaxPacketLength), 0),
               Arrival(FlowInfo(2, 2, 0, length_bytes, MaxPacketLength), 0),
               Arrival(FlowInfo(3, 1, 2, MaxPacketLength, MaxPacketLength),
                       RetxTimeoutNanos + 100 * PerLinkPropagationDelay)>>)

\* a flow between two hosts is under way when a flow arrives that names a node the
\* topology does not have; a third flow is due later
UnknownNode(kind, sender_id, dest_id) ==
    Scenario(kind, 2, QueueLengthBytes, AccessLinkBandwidth, PerLinkPropagationDelay,
             <<Arrival(FlowInfo(1, 0, 1, MaxPacketLength, MaxPacketLength), 0),
               Arrival(FlowInfo(2, sender_id, dest_id, MaxPacketLength, MaxPacketLength),
                       5 * PerLinkPropagationDelay),
               Arrival(FlowInfo(3, 1, 0, MaxPacketLength, MaxPacketLength), FlowStart)>>)

\* sender and destination of the flow of UnknownNode: 2 is the switch, 3 and 4 are
\* no node
UnknownPairs == {<<0, 3>>, <<3, 1>>, <<4, 3>>}

Scenarios ==
    {SendOneFlow(k) : k \in SwitchKinds}
        \cup {OneFlowWithNack}
        \cup {SendOnePacket(k, n) : k \in SwitchKinds, n \in OnePacketLengths}
        \cup {UnknownNode(k, u[1], u[2]) : k \in SwitchKinds, u \in UnknownPairs}
        \cup {TwoFlows(k) : k \in SwitchKinds}
        \cup {CrossFlows(k, l, n) : k \in SwitchKinds, l \in SmallQueues, n \in ShortFlows}
        \cup {LateFlow(k, l, n) : k \in SwitchKinds, l \in SmallQueues, n \in ShortFlows}

\* Executor::new on the scenario's topology
InitOf(c) ==
    /\ scn = c
    /\ hosts = push_pkts(make_hosts(scn), scn.pkts)
    /\ sw = make_switch(scn)
    /\ events = <<>>
    /\ current_time = 0
    /\ pc = "setup"
    /\ pushed = 0
    /\ lastPop = NoContainer
    /\ polls = 0
    /\ gh = [dropping |-> 0, predropping |-> 0, nack_refused |-> FALSE]
    /\ q = <<>>
    /\ lookup = NoLookup

Init == \E c \in Scenarios : InitOf(c)

Next ==
    \/ Push
    \/ Execute
    \/ PollNodes
    \/ FireFlowArrival
    \/ FireNodeTransmit
    \/ FireLinkTransmitToHost
    \/ FireLinkTransmitToSwitch
    \/ Drain

Spec == Init /\ [][Next]_vars

InitVictim == \E c \in VictimScenarios : InitOf(c)

SpecVictim == InitVictim /\ [][Next]_vars

(***************************************************************************)
(* SpecHost: runs in which hosts clear their to_send queue, in ticks.      *)
(***************************************************************************)
\* two flows of n packets from host 0 to host 1 arrive together, on links of a
\* tenth of the bandwidth of lib.rs: the second flow's window keeps the first flow's
\* later packets waiting in to_send for longer than the retransmit timeout
SharedSender(kind, n) ==
    Scenario(kind, 2, QueueLengthBytes, AccessLinkBandwidth \div 10, PerLinkPropagationDelay,
             <<Arrival(FlowInfo(1, 0, 1, n * MaxPacketLength, MaxPacketLength), FlowStart),
               Arrival(FlowInfo(2, 0, 1, n * MaxPacketLength, MaxPacketLength), FlowStart)>>)

HostScenarios ==
    {InTicks(c, NanosPerTick) :
        c \in {SharedSender(k, 12) : k \in {"lossy", "nack"}}
                \cup {CrossFlows("nack", l, n) : l \in SmallQueues, n \in ShortFlows}
                \cup {LateFlow("nack", l, n) : l \in SmallQueues, n \in ShortFlows}}

InitHost == \E c \in HostScenarios : InitOf(c)

SpecHost == InitHost /\ [][Next]_vars

(***************************************************************************)
(* SpecIngress: runs of execute() on the IngressPFCSwitch, in nanoseconds. *)
(***************************************************************************)
\* hosts 1..n each send a flow of len full packets to host 0; the flow of host i
\* arrives starts[i] after FlowStart
Incast(kind, queue_length_bytes, starts, len) ==
    Scenario(kind, Len(starts) + 1, queue_length_bytes, AccessLinkBandwidth,
             PerLinkPropagationDelay,
             [i \in 1..Len(starts) |->
                 Arrival(FlowInfo(i, i, 0, len * MaxPacketLength, MaxPacketLength),
                         FlowStart + starts[i])])

\* as send_one_packet, with three packets handed to push_pkt: one on host 0 and
\* the same Data twice on host 2, all for host 1
EqualPackets(kind) ==
    [Scenario(kind, 3, QueueLengthBytes, AccessLinkBandwidth, PerLinkPropagationDelay, <<>>)
        EXCEPT !.pkts = <<Data(0, 0, 1, 0, MaxPacketLength),
                          Data(1, 2, 1, 0, MaxPacketLength),
                          Data(1, 2, 1, 0, MaxPacketLength)>>]

\* the build without overflow checks
Unchecked(c) == [c EXCEPT !.overflow_checks = FALSE]

\* the flow length of the incast runs, in packets
IncastPackets == 6

\* the start offsets of the incast runs
IncastStarts ==
    {<<0, 0>>, <<0, 72000>>, <<0, 0, 0>>, <<0, 0, 0, 0>>, <<0, 4000000, 4000000, 5000000>>}

\* the queue limits of the incast runs
IncastQueues == {7500, QueueLengthBytes}

IngressScenarios ==
    LET checked == {Incast("ingress", l, st, IncastPackets) : l \in IncastQueues, st \in IncastStarts}
                       \cup {EqualPackets("ingress"), SendOneFlow("ingress")}
    IN  checked \cup {Unchecked(c) : c \in checked}

InitIngress == \E c \in IngressScenarios : InitOf(c)

SpecIngress == InitIngress /\ [][Next]_vars


\* the run of a simulation is not suspended for ever: execute() keeps looping
FairSpec == Spec /\ WF_vars(Next)

\* every flow side held by a host
AllFlows ==
    UNION {{hosts[i].active_flows[j] : j \in 1..Len(hosts[i].active_flows)} : i \in 1..Len(hosts)}

\* C3: per-link serialisation: no two NodeTransmitEvents for the same link are
\* scheduled at once, i.e. a node never starts serialising a packet onto a link
\* while an earlier packet is still being serialised onto it.
LinkSerialised ==
    \A i, j \in 1..Len(events) :
        (i # j /\ events[i].ev.kind = "NodeTransmit" /\ events[j].ev.kind = "NodeTransmit")
            => events[i].ev.link # events[j].ev.link

\* C5: PFC lossless: in a simulation with PFCSwitch, PFC-enabled links and the
\* 15000-byte queues of the scenarios of lib.rs no enqueue at the switch fails, i.e.
\* no "dropping" is ever logged.
PfcLossless ==
    (scn.kind = "pfc" /\ scn.queue_length_bytes = QueueLengthBytes) => gh.dropping = 0

\* C6: the NACK made by NackSwitch is never dropped: after a failed enqueue of a Data
\* packet, the enqueue of the NACK on the queue toward the sender always succeeds.
NackNeverDropped == ~gh.nack_refused

\* C7: NACK retransmit coverage: with NackSwitch, a flow blocked by a failed enqueue
\* of Data{flow, seq} is eventually unblocked by the arrival of Data{flow, seq}.
NackRetransmitCoverage ==
    \A f \in 1..4 : (scn.kind = "nack" /\ f \in DOMAIN sw.blocked_flows)
                        ~> (f \notin DOMAIN sw.blocked_flows)

\* C8: at most one NACK in flight per receiver flow: a receiver sends at most one
\* NACK between two in-order arrivals, out-of-order data arriving while
\* nack_inflight is set produces no packet, and a NACK carries cumulative_received.
OneNackInFlight ==
    \A f \in AllFlows :
        /\ f.g_nacks <= 1
        /\ (f.g_last.called /\ f.g_last.inflight /\ ~f.g_last.in_order) => f.g_last.out = <<>>
        /\ \A k \in 1..Len(f.g_last.out) :
              f.g_last.out[k].type = "Nack" => f.g_last.out[k].seq = f.cumulative_received

\* a receiver with a NACK in flight has just swallowed out-of-order data in silence
OneNackInFlightWitness ==
    \E f \in AllFlows :
        /\ f.side = "Receiver"
        /\ f.nack_inflight
        /\ f.g_nacks = 1
        /\ f.g_last.called /\ f.g_last.inflight /\ ~f.g_last.in_order
        /\ f.g_last.out = <<>>

\* C9: sender sequence invariant: for every go-back-N sender,
\* cumulative_acked <= next_to_send <= length_bytes in every reachable state.
SenderSequence ==
    \A f \in AllFlows :
        f.side = "Sender" =>
            /\ f.cumulative_acked <= f.next_to_send
            /\ f.next_to_send <= f.flow_info.length_bytes

\* a sender that started at time 0 and was acknowledged part of its flow has gone
\* back after the retransmit timeout and has sent up to the end of the flow again
SenderSequenceWitness ==
    \E f \in AllFlows :
        /\ f.side = "Sender"
        /\ f.start_time = 0
        /\ f.retx_timeout > RetxTimeoutNanos
        /\ f.cumulative_acked > 0
        /\ f.cumulative_acked < f.next_to_send
        /\ f.next_to_send = f.flow_info.length_bytes

\* C10: completion: on each side of a flow completion_time is assigned at most once,
\* and it is set exactly when the cumulative quantity (cumulative_acked for the
\* sender, cumulative_received for the receiver) equals length_bytes.
CompletionOnce ==
    \A f \in AllFlows :
        LET cumulative == IF f.side = "Sender" THEN f.cumulative_acked ELSE f.cumulative_received IN
        /\ f.g_completions <= 1
        /\ (f.completion_time # None) <=> (f.g_completions = 1)
        /\ (f.completion_time # None) <=> (cumulative = f.flow_info.length_bytes)

\* a run that lost packets at the switch has ended with both sides of every flow
\* completed once
CompletionOnceWitness ==
    /\ pc = "done"
    /\ gh.dropping > 0
    /\ AllFlows # {}
    /\ \A f \in AllFlows : f.completion_time # None /\ f.g_completions = 1

\* C12: termination condition: in the state in which execute() returns the heap is
\* empty and no host and no switch reports is_active() = true.
ReturnsWhenIdle ==
    pc = "done" =>
        /\ events = <<>>
        /\ \A i \in 1..Len(hosts) : ~hosts[i].active
        /\ ~sw.active

\* the egress queues of the switch
RackQueues == {sw.rack[i].q : i \in 1..Len(sw.rack)}

\* dequeue would hand out a packet: the FIFO is non-empty or a forced head is set
ReadyToTransmit(qu) == qu.pkts # <<>> \/ qu.forced_next # NoPkt

\* a packet is being serialised onto the link: its NodeTransmitEvent has not fired
LinkBusy(l) ==
    \E i \in 1..Len(events) : events[i].ev.kind = "NodeTransmit" /\ events[i].ev.link = l

\* C13 as stated: the active flag of every queue is true iff a packet is ready to
\* transmit (FIFO non-empty or forced head set) and the queue is not paused.
ActiveIffReady ==
    \A qu \in RackQueues : qu.active <=> (ReadyToTransmit(qu) /\ ~qu.paused)

\* C13: queue active flag: a queue that has a packet ready to transmit and is not
\* paused has its active flag set or is waiting for its link, onto which a packet
\* is being serialised (the exec step clears the flag and reactivate sets it again).
ActiveOrLinkBusy ==
    \A qu \in RackQueues :
        (ReadyToTransmit(qu) /\ ~qu.paused) => (qu.active \/ LinkBusy(qu.link))

\* a queue holds packets behind the one on the wire with its flag cleared, and
\* another queue has its flag set with nothing to transmit
ActiveOrLinkBusyWitness ==
    /\ \E qu \in RackQueues :
          ReadyToTransmit(qu) /\ ~qu.paused /\ ~qu.active /\ LinkBusy(qu.link)
    /\ \E qu \in RackQueues : qu.active /\ ~ReadyToTransmit(qu)

\* the NodeTransmitEvents pending for link l whose packet satisfies the type test
Transmits(evs, l, types) ==
    {i \in 1..Len(evs) : /\ evs[i].ev.kind = "NodeTransmit"
                         /\ evs[i].ev.link = l
                         /\ evs[i].ev.pkt.type \in types}

\* C14: PAUSE precedence: while a PAUSE sits in the forced slot of a queue of a PFC
\* switch, no Data, Ack or Nack is handed to that queue's link and nothing leaves
\* the FIFO, and when the PAUSE leaves the slot it is the packet transmitted.
PausePrecedence ==
    [][\A i \in 1..Len(sw.rack) :
          LET qu == sw.rack[i].q
              qv == sw'.rack[i].q
          IN  (scn.kind = "pfc" /\ qu.forced_next.type = "Pause") =>
                /\ Cardinality(Transmits(events', qu.link, {"Data", "Ack", "Nack"}))
                       <= Cardinality(Transmits(events, qu.link, {"Data", "Ack", "Nack"}))
                /\ Len(qv.pkts) >= Len(qu.pkts)
                /\ SubSeq(qv.pkts, 1, Len(qu.pkts)) = qu.pkts
                /\ qv.forced_next # qu.forced_next =>
                       Cardinality(Transmits(events', qu.link, {"Pause"}))
                           > Cardinality(Transmits(events, qu.link, {"Pause"}))]_vars

\* a PAUSE forced onto a queue with Data waiting in its FIFO is on the link, the
\* Data still behind it
PausePrecedenceWitness ==
    /\ scn.kind = "pfc"
    /\ \E i \in 1..Len(sw.rack) :
          /\ Transmits(events, sw.rack[i].q.link, {"Pause"}) # {}
          /\ sw.rack[i].q.forced_next = NoPkt
          /\ \E k \in 1..Len(sw.rack[i].q.pkts) : sw.rack[i].q.pkts[k].type = "Data"

(***************************************************************************)
(* SpecLookup: one call of Topology::lookup_nodes on a one-big-switch      *)
(* topology, for every list of ids up to a length, existing or not,        *)
(* repeated or not, in any order.                                          *)
(***************************************************************************)
MaxLookupHosts == 3

MaxLookupIds == 3

\* the ids asked for: the hosts, the switch, and ids beyond it
LookupIds == 0..(MaxLookupHosts + 1)

IdLists == UNION {[1..k -> LookupIds] : k \in 0..MaxLookupIds}

InitLookup ==
    /\ \E n \in 1..MaxLookupHosts :
          scn = Scenario("lossy", n, QueueLengthBytes, AccessLinkBandwidth,
                         PerLinkPropagationDelay, <<>>)
    /\ hosts = make_hosts(scn)
    /\ sw = make_switch(scn)
    /\ \E ids \in IdLists : lookup = [NoLookup EXCEPT !.ids = ids]
    /\ pc = "lookup"
    /\ events = <<>>
    /\ current_time = 0
    /\ pushed = 0
    /\ lastPop = NoContainer
    /\ polls = 0
    /\ gh = <<>>
    /\ q = <<>>

\* t.lookup_nodes(&ids)
LookupNodes ==
    /\ pc = "lookup"
    /\ lookup' = lookup_nodes(hosts, <<sw>>, lookup.ids)
    /\ pc' = "looked"
    /\ UNCHANGED <<events, current_time, pushed, lastPop, polls, hosts, sw, scn, gh, q>>

NextLookup == LookupNodes

SpecLookup == InitLookup /\ [][NextLookup]_vars

\* the topology has a node with this id
NodeExists(id) == id \in {hosts[i].id : i \in 1..Len(hosts)} \cup {sw.id}

\* C15: lookup_nodes preserves the caller's order: for a list of distinct ids of
\* existing nodes, hosts and switches mixed in any order, it returns as many nodes
\* as ids, and the i-th node has the i-th id.
LookupPreservesOrder ==
    (/\ pc = "looked"
     /\ \A i, j \in 1..Len(lookup.ids) : i # j => lookup.ids[i] # lookup.ids[j]
     /\ \A i \in 1..Len(lookup.ids) : NodeExists(lookup.ids[i]))
        => /\ lookup.ok
           /\ Len(lookup.nodes) = Len(lookup.ids)
           /\ \A i \in 1..Len(lookup.ids) :
                 node_id(hosts, <<sw>>, lookup.nodes[i]) = lookup.ids[i]

\* the switch was asked for first, then two hosts in descending order, and the
\* nodes came back in that order
LookupPreservesOrderWitness ==
    /\ pc = "looked"
    /\ lookup.ok
    /\ Len(lookup.ids) = 3
    /\ lookup.ids[1] = sw.id
    /\ lookup.ids[2] > lookup.ids[3]
    /\ lookup.nodes[1].kind = "switch"
    /\ lookup.nodes[2].kind = "host" /\ lookup.nodes[3].kind = "host"

\* C16: an unknown node id is fatal: lookup_nodes returns an error whenever the ids
\* of the event hold one that no node has, execute() then returns the error without
\* running the event (the nodes stay as they are, nothing is pushed), and no event
\* runs after it.
UnknownNodeFatal ==
    [][/\ (lookup'.called /\ \E i \in 1..Len(lookup'.ids) : ~NodeExists(lookup'.ids[i]))
           => (~lookup'.ok /\ pc' = "error")
       /\ (pc' = "error" /\ pc # "error")
           => (hosts' = hosts /\ sw' = sw /\ events' = heap_pop(events).data)
       /\ pc # "error"]_vars

\* execute() has returned the error of a flow arrival between nodes it could not
\* find, in the middle of a flow, with events left in the heap
UnknownNodeFatalWitness ==
    /\ pc = "error"
    /\ lookup.called /\ ~lookup.ok
    /\ \E i \in 1..Len(lookup.ids) : ~NodeExists(lookup.ids[i])
    /\ events # <<>>
    /\ current_time > 0
    /\ \E i \in 1..Len(hosts) : hosts[i].active_flows # <<>>

\* C17: go-back-N recovery timing: the run of one_flow_with_nack (a 10 packet flow
\* starting at 1 s through a switch that drops the third Data packet and returns a
\* NACK) ends without a panic or an error, with current_time = 1,160,640,000 ns.
NackRecoveryTime ==
    scn = OneFlowWithNack =>
        /\ pc \notin {"panic", "error"}
        /\ pc = "done" => current_time = 1160640000

\* execute() has returned from one_flow_with_nack: the switch dropped a packet and
\* both sides of the flow are complete
NackRecoveryTimeWitness ==
    /\ scn = OneFlowWithNack
    /\ pc = "done"
    /\ sw.data_seen > DroppedDataPacket
    /\ AllFlows # {}
    /\ \A f \in AllFlows : f.completion_time # None

\* C18: two-hop latency: when one packet waits in a host of an otherwise idle
\* two-host topology, the run ends at twice the sum of the packet's serialisation
\* delay and the propagation delay; for a 1460-byte Data packet on 1 Mb/s links of
\* 1 ms that is 26,000,000 ns.
TwoHopLatency ==
    (scn.pkts # <<>> /\ scn.flows = <<>>) =>
        /\ pc \notin {"panic", "error"}
        /\ pc = "done" =>
              /\ current_time =
                    2 * (TransmissionDelay(get_size_bytes(scn.pkts[1]), scn.access_link_bandwidth)
                           + scn.per_link_propagation_delay)
              /\ scn.pkts[1].length = MaxPacketLength => current_time = 26000000

\* execute() has returned from send_one_packet: the packet crossed both links and
\* nothing is left to send
TwoHopLatencyWitness ==
    /\ scn = SendOnePacket("lossy", MaxPacketLength)
    /\ pc = "done"
    /\ current_time > 0
    /\ lastPop.ev.kind = "LinkTransmit" /\ lastPop.ev.link.to = 1
    /\ \A i \in 1..Len(hosts) : hosts[i].to_send = <<>>

\* C19: poll phase trigger: an event popped with a fire time equal to current_time
\* runs at once, with no poll; one popped with a later fire time causes exactly one
\* poll phase, in which every active node runs exec at the old current_time, and
\* only then does time advance to the minimum event of the heap, which runs.
PollPhaseTrigger ==
    [][/\ (pc = "loop" /\ events # <<>> /\ events[1].time = current_time)
           => (polls' = polls /\ lastPop' = events[1] /\ current_time' = current_time)
       /\ (pc = "loop" /\ events # <<>> /\ events[1].time > current_time)
           => /\ polls' = polls + 1
              /\ pc' = "polled"
              /\ current_time' = current_time /\ lastPop' = lastPop
              /\ \A i \in 1..Len(hosts) :
                    (hosts[i].active /\ ~hosts[i].paused) => ~hosts'[i].active
              /\ \A i \in 1..Len(sw.rack) :
                    (sw.active /\ is_active(sw.rack[i].q) /\ sw.rack[i].q.pkts # <<>>)
                        => Transmits(events', sw.rack[i].q.link, {"Data", "Ack", "Nack", "Pause", "Resume"})
                              # Transmits(events, sw.rack[i].q.link, {"Data", "Ack", "Nack", "Pause", "Resume"})
              /\ \A i \in 1..Len(events') : events'[i].time >= current_time
       /\ pc = "polled"
           => /\ polls' = polls
              /\ lastPop' = events[1]
              /\ current_time' = events[1].time /\ current_time' > current_time
              /\ \A i \in 1..Len(events) : events[i].time >= events[1].time
       /\ current_time' > current_time => pc = "polled"]_vars

\* two_flows_scenario: both flow arrivals, due at the same time, have run after a
\* single poll
PollPhaseTriggerWitness ==
    /\ scn = TwoFlows("lossy")
    /\ polls = 1
    /\ current_time = FlowStart
    /\ lastPop.ev.kind = "FlowArrival"
    /\ Len(hosts[1].active_flows) = 2

\* C20: retransmit timeout: on every exec of a sender at a time now at which the
\* flow is not complete and now - anchor > 1 s, the sender sets next_to_send to
\* cumulative_acked, sets the anchor to now, signals clear and emits Data again
\* starting at seq = cumulative_acked; on any other exec next_to_send does not
\* move backwards and no clear is signalled.
RetransmitTimeout ==
    \A f \in AllFlows :
        (f.side = "Sender" /\ f.g_exec.called) =>
            LET e == f.g_exec IN
            IF ~e.complete /\ e.time - e.anchor > RetxTimeoutNanos
            THEN /\ e.clear
                 /\ e.anchor_after = e.time
                 /\ e.pkts # <<>>
                 /\ e.pkts[1].type = "Data" /\ e.pkts[1].seq = e.cumulative_acked
                 /\ e.next_after = e.cumulative_acked + SumSizes(e.pkts) - HeaderSize * Len(e.pkts)
            ELSE /\ ~e.clear
                 /\ e.next_after >= e.next_to_send

(***************************************************************************)
(* SpecVictim: the victim-flow scenarios.                                  *)
(***************************************************************************)

\* C11: all flows complete: with two senders to one destination, with the
\* independent victim and with the shared-ingress victim, under each switch the
\* scenario is run with, execute() ends without a panic or an error, and when it has
\* returned every sender and receiver flow on every host has its completion_time
\* set.
AllFlowsComplete ==
    /\ pc \notin {"panic", "error"}
    /\ pc = "done" => \A f \in AllFlows : f.completion_time # None

(***************************************************************************)
(* Spec: senders that are never acknowledged.                              *)
(***************************************************************************)

\* C21: a sender that has transmitted data and has never received an ACK or a NACK
\* (its anchor retx_timeout is still 0) is not left stalled: execute() does not
\* return while such a flow, on a host that is not paused, is incomplete.
NeverAckedSenderRecovers ==
    pc = "done" =>
        \A f \in AllFlows :
            (/\ f.side = "Sender" /\ f.next_to_send > 0 /\ f.retx_timeout = 0
             /\ ~hosts[f.flow_info.sender_id + 1].paused)
                => f.completion_time # None

(***************************************************************************)
(* Spec: the PFC switches.                                                 *)
(***************************************************************************)

\* the step in which execute() hands a Data, Ack or Nack to Switch::receive of a
\* switch of the given kind, without error or panic
SwitchReceives(kind) ==
    /\ scn.kind = kind
    /\ lastPop' # lastPop
    /\ lastPop'.ev.kind = "LinkTransmit"
    /\ lastPop'.ev.link.to = sw.id
    /\ lastPop'.ev.pkt.type \in {"Data", "Ack", "Nack"}
    /\ pc' = "loop"

\* the egress queue of the packet being received
Egress == RackIndexTo(sw.rack, lastPop'.ev.pkt.to)

\* the receive step has put the packet at the tail of its egress queue
Enqueued ==
    sw'.rack[Egress].q.pkts = Append(sw.rack[Egress].q.pkts, lastPop'.ev.pkt)

\* C22: PFC pause fan-out: when PFCSwitch::receive has enqueued a Data, Ack or Nack
\* and the headroom of the destination queue is then <= pfc_pause_threshold, every
\* queue has its already_paused bit set afterwards, every queue whose bit was clear
\* holds PAUSE(switch id) as forced head and a queue whose bit was set gets no
\* second PAUSE; when the headroom is above the threshold no bit and no forced head
\* changes.
PauseFanOut ==
    [][(SwitchReceives("pfc") /\ Enqueued) =>
          IF headroom(sw'.rack[Egress].q) <= pfc_pause_threshold(sw'.rack[Egress].q.link)
          THEN \A j \in 1..Len(sw.rack) :
                   /\ sw'.rack[j].already_paused
                   /\ sw'.rack[j].q.forced_next =
                          IF sw.rack[j].already_paused
                          THEN sw.rack[j].q.forced_next
                          ELSE Pause(sw.id)
          ELSE \A j \in 1..Len(sw.rack) :
                   /\ sw'.rack[j].already_paused = sw.rack[j].already_paused
                   /\ sw'.rack[j].q.forced_next = sw.rack[j].q.forced_next]_vars

\* two_flows_pfc: a Data has filled the queue to host 0 up to the threshold and
\* every queue holds the PAUSE
PauseFanOutWitness ==
    /\ scn = TwoFlows("pfc")
    /\ lastPop.ev.kind = "LinkTransmit"
    /\ lastPop.ev.link.to = sw.id
    /\ lastPop.ev.pkt.type = "Data"
    /\ headroom(sw.rack[1].q) <= pfc_pause_threshold(sw.rack[1].q.link)
    /\ \A j \in 1..Len(sw.rack) :
           sw.rack[j].already_paused /\ sw.rack[j].q.forced_next = Pause(sw.id)

\* the step in which poll_nodes runs Switch::exec of a switch of the given kind
SwitchExecs(kind) ==
    /\ scn.kind = kind
    /\ polls' = polls + 1
    /\ sw.active
    /\ pc' # "panic"

\* exec dequeues a packet from queue j: the queue is active and holds something
Dequeues(j) ==
    /\ is_active(sw.rack[j].q)
    /\ (sw.rack[j].q.forced_next # NoPkt \/ sw.rack[j].q.pkts # <<>>)

\* the forced slot of queue j once exec has stepped the queue
SlotAfterStep(j) ==
    IF is_active(sw.rack[j].q) THEN NoPkt ELSE sw.rack[j].q.forced_next

\* C23: PFC resume rule: in PFCSwitch::exec, if some dequeue leaves its queue with
\* headroom above pfc_resume_threshold, RESUME(switch id) is forced on every queue
\* whose already_paused bit is set and the bits are cleared; if no dequeue of the
\* step does, no RESUME is sent and no bit changes.
ResumeRule ==
    [][SwitchExecs("pfc") =>
          IF \E j \in 1..Len(sw.rack) :
                 /\ Dequeues(j)
                 /\ headroom(sw'.rack[j].q) > pfc_resume_threshold(sw'.rack[j].q.link)
          THEN \A j \in 1..Len(sw.rack) :
                   /\ ~sw'.rack[j].already_paused
                   /\ sw'.rack[j].q.forced_next =
                          IF sw.rack[j].already_paused THEN Resume(sw.id) ELSE SlotAfterStep(j)
          ELSE \A j \in 1..Len(sw.rack) :
                   /\ sw'.rack[j].already_paused = sw.rack[j].already_paused
                   /\ sw'.rack[j].q.forced_next = SlotAfterStep(j)]_vars

\* two_flows_pfc: a poll in which a queue was left above the threshold has run and
\* every queue holds the RESUME
ResumeRuleWitness ==
    /\ scn = TwoFlows("pfc")
    /\ pc = "polled"
    /\ \E j \in 1..Len(sw.rack) :
           headroom(sw.rack[j].q) > pfc_resume_threshold(sw.rack[j].q.link)
    /\ \A j \in 1..Len(sw.rack) :
           ~sw.rack[j].already_paused /\ sw.rack[j].q.forced_next = Resume(sw.id)

\* C24: PFCSwitch issues no RESUME while an egress queue of the switch is still
\* congested: in an exec that clears an already_paused bit (and forces the RESUME),
\* every queue is left with headroom above its pfc_pause_threshold.
ResumeOnlyWhenDrained ==
    [][(/\ SwitchExecs("pfc")
        /\ \E j \in 1..Len(sw.rack) :
               sw.rack[j].already_paused /\ ~sw'.rack[j].already_paused)
          => \A k \in 1..Len(sw.rack) :
                 headroom(sw'.rack[k].q) > pfc_pause_threshold(sw'.rack[k].q.link)]_vars

\* C25: pause is always lifted: under PFCSwitch and IngressPFCSwitch, when execute()
\* has returned no host is paused and no queue of the switch has its already_paused
\* bit set.
PauseLifted ==
    (pc = "done" /\ scn.kind \in PfcKinds) =>
        /\ \A i \in 1..Len(hosts) : ~hosts[i].paused
        /\ \A j \in 1..Len(sw.rack) : ~sw.rack[j].already_paused

\* C26: no control packet is lost in the forced slot: a PAUSE or RESUME waiting in
\* the forced slot of a queue of a PFC or ingress-PFC switch stays there until an
\* exec of the switch dequeues it; force_tx_next never writes over it.
ForcedSlotKept ==
    [][scn.kind \in PfcKinds =>
          \A j \in 1..Len(sw.rack) :
              (/\ sw.rack[j].q.forced_next # NoPkt
               /\ ~(polls' = polls + 1 /\ sw.active /\ is_active(sw.rack[j].q)))
                  => sw'.rack[j].q.forced_next = sw.rack[j].q.forced_next]_vars

\* the ingress of the packet being received: the node its link comes from
Ingress == lastPop'.ev.link.from

\* the test of C27 on the state after the enqueue
OverIngressShare ==
    sw'.ingress_queues[Ingress] + pfc_pause_threshold(sw'.rack[Egress].q.link)
        > headroom(sw'.rack[Egress].q) \div Len(sw.rack)

\* C27: Ingress-PFC pauses only the offending ingress: when IngressPFCSwitch::receive
\* has enqueued a Data, Ack or Nack that came in on the link from node i, a PAUSE is
\* forced on the queue to i exactly when ingress_occupancy[i] + pfc_pause_threshold >
\* headroom(egress) / num_links after the enqueue and i is not marked paused, and its
\* bit is then set; otherwise that queue's bit and forced head stay, and the bits and
\* forced heads of all other queues stay in either case.
IngressPauseOnlyOffender ==
    [][(SwitchReceives("ingress") /\ Enqueued) =>
          \A j \in 1..Len(sw.rack) :
              IF /\ j = RackIndexTo(sw.rack, Ingress)
                 /\ OverIngressShare
                 /\ ~sw.rack[j].already_paused
              THEN /\ sw'.rack[j].already_paused
                   /\ sw'.rack[j].q.forced_next = Pause(sw.id)
              ELSE /\ sw'.rack[j].already_paused = sw.rack[j].already_paused
                   /\ sw'.rack[j].q.forced_next = sw.rack[j].q.forced_next]_vars

\* a Data packet from host 1 has just been enqueued by the IngressPFCSwitch: the
\* queue to host 1 holds a PAUSE and is marked, the other queues are untouched
IngressPauseOnlyOffenderWitness ==
    /\ scn.kind = "ingress"
    /\ pc = "loop"
    /\ lastPop.ev.kind = "LinkTransmit"
    /\ lastPop.ev.link.to = sw.id
    /\ lastPop.ev.link.from = 1
    /\ lastPop.ev.pkt.type = "Data"
    /\ sw.rack[2].already_paused
    /\ sw.rack[2].q.forced_next = Pause(sw.id)
    /\ \A j \in 1..Len(sw.rack) :
           j # 2 => ~sw.rack[j].already_paused /\ sw.rack[j].q.forced_next = NoPkt
    /\ \E j \in 1..Len(sw.rack) : Len(sw.rack[j].q.pkts) > 0

\* the Data, Ack and Nack packets of a sequence that carry sender id i
FromHost(packets, i) ==
    SelectSeq(packets, LAMBDA p : p.type \in {"Data", "Ack", "Nack"} /\ p.from = i)

\* the bytes of the packets from host i held in the egress FIFOs from the j-th on
RECURSIVE HeldFrom(_, _)
HeldFrom(i, j) ==
    IF j > Len(sw.rack) THEN 0
    ELSE SumSizes(FromHost(sw.rack[j].q.pkts, i)) + HeldFrom(i, j + 1)

\* the counter of ingress i; an ingress without an entry has none charged
IngressOccupancy(i) ==
    IF i \in DOMAIN sw.ingress_queues THEN sw.ingress_queues[i] ELSE 0

\* every Data, Ack or Nack on its way to the switch is on the link of the host whose
\* id it carries, so the packets that arrived from ingress i are those with from = i
ArrivesFromSender ==
    \A k \in 1..Len(events) :
        (/\ events[k].ev.kind = "LinkTransmit"
         /\ events[k].ev.link.to = sw.id
         /\ events[k].ev.pkt.type \in {"Data", "Ack", "Nack"})
            => events[k].ev.pkt.from = events[k].ev.link.from

\* C28: ingress occupancy accounting: while the IngressPFCSwitch runs, for every
\* ingress i the counter ingress_occupancy[i] equals the sum of the wire sizes of the
\* Data, Ack and Nack packets held in the egress FIFOs that arrived from ingress i.
IngressOccupancyExact ==
    (scn.kind = "ingress" /\ pc # "panic") =>
        /\ ArrivesFromSender
        /\ \A i \in 0..(Len(hosts) - 1) : IngressOccupancy(i) = HeldFrom(i, 1)

\* the switch holds packets of two ingresses, one of them with two packets queued,
\* and a dequeue has already taken a counter down
IngressOccupancyExactWitness ==
    /\ scn.kind = "ingress"
    /\ pc = "loop"
    /\ \E i, k \in 0..(Len(hosts) - 1) :
           /\ i # k
           /\ HeldFrom(i, 1) > MaxPacketLength + 40
           /\ HeldFrom(k, 1) > 0
    /\ \E i \in DOMAIN sw.ingress_queues : sw.ingress_queues[i] = 0

\* C29: side-table completeness: every Data, Ack or Nack held in an egress FIFO of
\* the IngressPFCSwitch has an entry in ingress_queue_mapping, so the lookup made on
\* its dequeue does not fail, also when two structurally equal packets are queued.
SideTableComplete ==
    scn.kind = "ingress" =>
        \A j \in 1..Len(sw.rack) : \A k \in 1..Len(sw.rack[j].q.pkts) :
            sw.rack[j].q.pkts[k].type \in {"Data", "Ack", "Nack"}
                => sw.rack[j].q.pkts[k] \in DOMAIN sw.ingress_queue_mapping

\* C30: no underflow of the resume threshold: whenever IngressPFCSwitch::exec has
\* dequeued a Data, Ack or Nack from an egress queue, the headroom of that queue after
\* the dequeue is >= pfc_resume_threshold of its link, so the u32 subtraction
\* headroom - pfc_resume_threshold does not go below 0.
ResumeThresholdFits ==
    [][(scn.kind = "ingress" /\ polls' = polls + 1 /\ sw.active) =>
          \A j \in 1..Len(sw.rack) :
              Len(sw'.rack[j].q.pkts) < Len(sw.rack[j].q.pkts)
                  => headroom(sw'.rack[j].q) >= pfc_resume_threshold(sw.rack[j].q.link)]_vars

\* the step in which execute() hands a Data packet to NackSwitch::receive, the
\* blocked-flow filter lets it through and its egress queue has no room for it
NackDropStep ==
    /\ scn.kind = "nack"
    /\ lastPop' # lastPop
    /\ lastPop'.ev.kind = "LinkTransmit"
    /\ lastPop'.ev.link.to = sw.id
    /\ lastPop'.ev.pkt.type = "Data"
    /\ lastPop'.ev.pkt.flow \in DOMAIN sw.blocked_flows
           => sw.blocked_flows[lastPop'.ev.pkt.flow] = lastPop'.ev.pkt.seq
    /\ Egress # 0
    /\ headroom(sw.rack[Egress].q) < get_size_bytes(lastPop'.ev.pkt)

\* C31: NACK switch drop handling: when NackSwitch::receive fails to enqueue
\* Data{f, s} on egress queue q, afterwards blocked_flows[f] = s, q holds its old
\* packets without the Data of f with seq > s, in their old order, and exactly one
\* Nack{f, s} has been appended to the queue toward the packet's sender; the other
\* queues are as before.
NackDropHandling ==
    [][NackDropStep =>
          LET p == lastPop'.ev.pkt
              back == RackIndexTo(sw.rack, p.from)
          IN  /\ p.flow \in DOMAIN sw'.blocked_flows
              /\ sw'.blocked_flows[p.flow] = p.seq
              /\ back # 0
              /\ back # Egress
              /\ \A j \in 1..Len(sw.rack) :
                     sw'.rack[j].q.pkts =
                         IF j = Egress
                         THEN SelectSeq(sw.rack[j].q.pkts,
                                        LAMBDA x : ~(x.type = "Data" /\ x.flow = p.flow
                                                        /\ x.seq > p.seq))
                         ELSE IF j = back
                         THEN Append(sw.rack[j].q.pkts, Nack(p.flow, p.to, p.from, p.seq))
                         ELSE sw.rack[j].q.pkts]_vars

\* the step in which execute() hands a packet to NackSwitch::receive
NackSwitchReceives ==
    /\ scn.kind = "nack"
    /\ lastPop' # lastPop
    /\ lastPop'.ev.kind = "LinkTransmit"
    /\ lastPop'.ev.link.to = sw.id
    /\ Egress # 0

\* the egress queue has taken the packet and no other queue has changed
OnlyEnqueued ==
    \A j \in 1..Len(sw.rack) :
        sw'.rack[j] = IF j = Egress
                      THEN [sw.rack[j] EXCEPT !.q.pkts = Append(sw.rack[j].q.pkts, lastPop'.ev.pkt),
                                              !.q.active = TRUE]
                      ELSE sw.rack[j]

\* C32: blocked-flow filter: while blocked_flows[f] = s, NackSwitch::receive of a
\* Data of f with another seq leaves every queue and blocked_flows as they are (no
\* NACK is queued); a Data of f with seq = s finds the entry removed before the
\* enqueue, so that it is gone when the enqueue succeeds; an Ack or Nack is enqueued
\* when its queue has room, whatever blocked_flows holds, and leaves blocked_flows
\* alone.
BlockedFlowFilter ==
    [][NackSwitchReceives =>
          LET p == lastPop'.ev.pkt
              blocked == p.flow \in DOMAIN sw.blocked_flows
              room == get_size_bytes(p) <= headroom(sw.rack[Egress].q)
          IN  /\ (p.type = "Data" /\ blocked /\ sw.blocked_flows[p.flow] # p.seq)
                     => /\ sw'.rack = sw.rack
                        /\ sw'.blocked_flows = sw.blocked_flows
              /\ (p.type = "Data" /\ blocked /\ sw.blocked_flows[p.flow] = p.seq /\ room)
                     => /\ sw'.blocked_flows = MapRemove(sw.blocked_flows, p.flow)
                        /\ OnlyEnqueued
              /\ p.type \in {"Ack", "Nack"}
                     => /\ sw'.blocked_flows = sw.blocked_flows
                        /\ IF room THEN OnlyEnqueued ELSE sw'.rack = sw.rack]_vars

\* a NackSwitch that has pre-dropped Data of a blocked flow has just taken a Data
\* packet of a flow with no entry left into its egress queue, after a drop
BlockedFlowFilterWitness ==
    /\ scn.kind = "nack"
    /\ pc = "loop"
    /\ gh.predropping > 0
    /\ gh.dropping > 0
    /\ lastPop.ev.kind = "LinkTransmit"
    /\ lastPop.ev.link.to = sw.id
    /\ lastPop.ev.pkt.type = "Data"
    /\ sw.blocked_flows = <<>>
    /\ \E j \in 1..Len(sw.rack) :
           /\ sw.rack[j].q.pkts # <<>>
           /\ sw.rack[j].q.pkts[Len(sw.rack[j].q.pkts)] = lastPop.ev.pkt

\* the step in which execute() hands host i a Nack of a flow it is the sender of
HostGetsNack(i) ==
    /\ lastPop' # lastPop
    /\ lastPop'.ev.kind = "LinkTransmit"
    /\ lastPop'.ev.link.to = i - 1
    /\ lastPop'.ev.pkt.type = "Nack"
    /\ FindFlow(hosts[i].active_flows, lastPop'.ev.pkt.flow) # 0
    /\ hosts[i].active_flows[FindFlow(hosts[i].active_flows, lastPop'.ev.pkt.flow)].side = "Sender"
    /\ pc' = "loop"

\* the step in which poll_nodes runs Host::exec of host i and a flow of it signals
\* clear
HostExecClears(i) ==
    /\ polls' = polls + 1
    /\ hosts[i].active
    /\ ~hosts[i].paused
    /\ \E k \in 1..Len(hosts'[i].active_flows) : hosts'[i].active_flows[k].g_exec.clear

\* what is left of a to_send queue when the Data of the flows in fids are taken out
WithoutDataOf(pkts, fids) ==
    SelectSeq(pkts, LAMBDA x : x.type # "Data" \/ x.flow \notin fids)

\* C33: host clear on NACK: when a host has processed a Nack of its flow f, to_send
\* is its old content without the Data of f, in the old order, followed by the
\* flow's new packets (Data of f from the nacked seq on, contiguous); when a sender
\* flow signals clear in Host::exec, the same holds of to_send together with the
\* packet exec hands to the link: the old content without the Data of the clearing
\* flows, then the packets the flows returned, less the head that is transmitted.
HostClearOnNack ==
    [][\A i \in 1..Len(hosts) :
          /\ HostGetsNack(i) =>
                LET nack == lastPop'.ev.pkt
                    kept == WithoutDataOf(hosts[i].to_send, {nack.flow})
                    now == hosts'[i].to_send
                IN  /\ Len(now) >= Len(kept)
                    /\ SubSeq(now, 1, Len(kept)) = kept
                    /\ \A k \in (Len(kept) + 1)..Len(now) :
                           /\ now[k].type = "Data"
                           /\ now[k].flow = nack.flow
                           /\ now[k].seq = IF k = Len(kept) + 1 THEN nack.seq
                                           ELSE now[k - 1].seq + now[k - 1].length
          /\ HostExecClears(i) =>
                LET flows == hosts'[i].active_flows
                    clearing == {flows[k].flow_info.flow_id :
                                    k \in {x \in 1..Len(flows) : flows[x].g_exec.clear}}
                    kept == WithoutDataOf(hosts[i].to_send, clearing)
                    returned == Flatten([k \in 1..Len(flows) |-> flows[k].g_exec.pkts])
                IN  /\ kept \o returned # <<>>
                    /\ hosts'[i].to_send = Tail(kept \o returned)]_vars

\* a host has just processed a Nack of its flow f: to_send begins with a packet
\* that is not Data of f and ends with the retransmission from the nacked seq on
HostClearOnNackWitness ==
    /\ pc = "loop"
    /\ lastPop.ev.kind = "LinkTransmit"
    /\ lastPop.ev.pkt.type = "Nack"
    /\ IsHost(lastPop.ev.link.to)
    /\ LET now == hosts[lastPop.ev.link.to + 1].to_send
           kept == WithoutDataOf(now, {lastPop.ev.pkt.flow})
       IN  /\ kept # <<>>
           /\ Len(now) > Len(kept)
           /\ SubSeq(now, 1, Len(kept)) = kept
           /\ now[Len(kept) + 1].seq = lastPop.ev.pkt.seq

\* the NodeTransmitEvents of host i waiting in a heap
TransmitsOf(evs, i) ==
    {k \in 1..Len(evs) : evs[k].ev.kind = "NodeTransmit" /\ evs[k].ev.link.from = i - 1}

\* C34: a paused host sends nothing: a poll that finds host i paused leaves the
\* host as it is (to_send, every flow, the active flag) and adds no NodeTransmitEvent
\* of it to the heap; a NodeTransmitEvent it emitted earlier still fires while it is
\* paused and puts its packet on the link.
PausedHostSilent ==
    [][\A i \in 1..Len(hosts) :
          /\ (polls' = polls + 1 /\ hosts[i].paused)
                => /\ hosts'[i] = hosts[i]
                   /\ Cardinality(TransmitsOf(events', i)) = Cardinality(TransmitsOf(events, i))
          /\ (/\ hosts[i].paused
              /\ lastPop' # lastPop
              /\ lastPop'.ev.kind = "NodeTransmit"
              /\ lastPop'.ev.link.from = i - 1)
                => \E k \in 1..Len(events') :
                       /\ events'[k].ev.kind = "LinkTransmit"
                       /\ events'[k].ev.link = lastPop'.ev.link
                       /\ events'[k].ev.pkt = lastPop'.ev.pkt
                       /\ events'[k].time = current_time' + lastPop'.ev.link.propagation_delay]_vars

\* a poll has just found an active host paused with packets waiting: they are
\* still in to_send and the host has no NodeTransmitEvent in the heap
PausedHostSilentWitness ==
    /\ pc = "polled"
    /\ \E i \in 1..Len(hosts) :
           /\ hosts[i].paused
           /\ hosts[i].active
           /\ hosts[i].to_send # <<>>
           /\ TransmitsOf(events, i) = {}

\* the containers of the heap that hold an event of this kind on this link
OnLink(kind, link) ==
    {k \in 1..Len(events) : events[k].ev.kind = kind /\ events[k].ev.link = link}

\* C35: no reordering inside a link: packets reach the link's destination in the
\* order in which the source began transmitting them, whatever their wire sizes.
\* A transmission begins when its NodeTransmitEvent is pushed and the packet is
\* delivered when the LinkTransmitEvent pushed by it runs, so: a NodeTransmitEvent
\* that has run leaves no earlier-pushed NodeTransmitEvent of its link behind, and
\* a LinkTransmitEvent that has run leaves no earlier-pushed LinkTransmitEvent of
\* its link behind.
LinkKeepsOrder ==
    (lastPop.ev.kind \in {"NodeTransmit", "LinkTransmit"})
        => \A k \in OnLink(lastPop.ev.kind, lastPop.ev.link) : events[k].id > lastPop.id

\* two packets are in serialisation on one link and the later one has overtaken
LinkKeepsOrderBroken == ~LinkKeepsOrder

\* the receiving sides of the flow a sending side belongs to
ReceiversOf(f) ==
    {r \in AllFlows : r.side = "Receiver" /\ r.flow_info.flow_id = f.flow_info.flow_id}

\* C36: ACK soundness: the sender of a flow never holds more bytes acknowledged
\* than its receiver has received in order, and it is never complete before the
\* receiver is. A sender whose receiver has seen nothing holds nothing acknowledged.
AckSound ==
    \A f \in AllFlows :
        f.side = "Sender"
            => /\ (ReceiversOf(f) = {}) => (f.cumulative_acked = 0 /\ f.completion_time = None)
               /\ \A r \in ReceiversOf(f) :
                      /\ f.cumulative_acked <= r.cumulative_received
                      /\ (f.completion_time # None) => (r.completion_time # None)

\* a sender has finished a flow of several packets
AckSoundWitness ==
    \E f \in AllFlows :
        /\ f.side = "Sender"
        /\ f.completion_time # None
        /\ f.flow_info.length_bytes > f.flow_info.max_packet_length
        /\ \E r \in ReceiversOf(f) : r.cumulative_received = f.cumulative_acked

\* a step of SpecQueue in which dequeue took a packet out of the queue
DequeueTakes ==
    /\ pc = "queue"
    /\ gh'.ops = gh.ops + 1
    /\ dequeue(q).pkt # NoPkt
    /\ q' = dequeue(q).q

\* C37: dequeue and the active flag: with a forced head set, dequeue returns it,
\* clears the slot and leaves the FIFO as it is; with none it returns the front of
\* the FIFO; and a dequeue that leaves the FIFO empty and the slot clear leaves
\* active_flag false, whether it took the last FIFO packet or the forced head.
DequeueClearsActive ==
    [][DequeueTakes
          => /\ (q.forced_next # NoPkt)
                    => /\ dequeue(q).pkt = q.forced_next
                       /\ q'.forced_next = NoPkt
                       /\ q'.pkts = q.pkts
             /\ (q.forced_next = NoPkt)
                    => /\ dequeue(q).pkt = Head(q.pkts)
                       /\ q'.pkts = Tail(q.pkts)
             /\ (q'.pkts = <<>> /\ q'.forced_next = NoPkt) => ~q'.active]_vars

\* the packets of a FIFO that the closure of NackSwitch::receive leaves, in their order
RECURSIVE NotMatching(_, _, _)
NotMatching(pkts, flow, seq) ==
    IF pkts = <<>> THEN <<>>
    ELSE IF DataAfter(flow, seq, Head(pkts)) THEN NotMatching(Tail(pkts), flow, seq)
    ELSE <<Head(pkts)>> \o NotMatching(Tail(pkts), flow, seq)

\* the positions of a FIFO whose packet the closure matches
MatchingAt(pkts, flow, seq) == {k \in 1..Len(pkts) : DataAfter(flow, seq, pkts[k])}

\* the wire sizes of the matching packets, summed
RECURSIVE MatchingBytes(_, _, _)
MatchingBytes(pkts, flow, seq) ==
    IF pkts = <<>> THEN 0
    ELSE (IF DataAfter(flow, seq, Head(pkts)) THEN get_size_bytes(Head(pkts)) ELSE 0)
             + MatchingBytes(Tail(pkts), flow, seq)

\* a step of SpecQueue that is discard_matching for Data of flow 0 after seq
DiscardStep(seq) ==
    /\ pc = "queue"
    /\ gh'.ops = gh.ops + 1
    /\ q' = discard_matching(q, 0, seq).q
    /\ gh'.dropped = gh.dropped + discard_matching(q, 0, seq).dropped

\* C38: discard_matching removes exactly the FIFO packets its predicate matches and
\* returns their number: the FIFO left is the subsequence of the others in their
\* order, headroom grows by the wire sizes removed, and the forced head, the active
\* flag and the paused flag stay as they were.
DiscardMatchingExact ==
    [][\A seq \in {0, 1460} :
          DiscardStep(seq)
              => /\ q'.pkts = NotMatching(q.pkts, 0, seq)
                 /\ discard_matching(q, 0, seq).dropped = Cardinality(MatchingAt(q.pkts, 0, seq))
                 /\ headroom(q') = headroom(q) + MatchingBytes(q.pkts, 0, seq)
                 /\ q'.forced_next = q.forced_next
                 /\ q'.active = q.active
                 /\ q'.paused = q.paused]_vars

\* three packets queued, a forced head set, and discard_matching has taken one packet
DiscardMatchingExactWitness ==
    /\ pc = "queue"
    /\ gh.dropped > 0
    /\ gh.ops = 5
    /\ Len(q.pkts) = 2
    /\ q.forced_next # NoPkt

\* the payload lengths of a list of Data packets, summed
RECURSIVE SumLengths(_)
SumLengths(pkts) == IF pkts = <<>> THEN 0 ELSE Head(pkts).length + SumLengths(Tail(pkts))

\* the sending sides of the run
Senders == {f \in AllFlows : f.side = "Sender"}

\* the window in bytes: cwnd() * max_packet_length
WindowBytes(f) == ConstCwnd * f.flow_info.max_packet_length

\* where the send step of an exec started: go_back_n moved next_to_send to
\* cumulative_acked first if the exec timed out
SendStart(x) == IF x.clear THEN x.cumulative_acked ELSE x.next_to_send

\* C39: sender window: a send step emits Data with contiguous sequence numbers from
\* the old next_to_send, each of max_packet_length bytes but possibly a last one of
\* length_bytes - seq, and only while next_to_send is below cumulative_acked +
\* cwnd * max_packet_length and below length_bytes; so next_to_send -
\* cumulative_acked never exceeds cwnd * max_packet_length.
SenderWindow ==
    \A f \in Senders :
        LET fi == f.flow_info
            x == f.g_exec
        IN  /\ f.next_to_send - f.cumulative_acked <= WindowBytes(f)
            /\ f.next_to_send <= fi.length_bytes
            /\ (x.called /\ ~x.complete)
                  => /\ x.next_after = SendStart(x) + SumLengths(x.pkts)
                     /\ \A k \in 1..Len(x.pkts) :
                            /\ x.pkts[k] = Data(fi.flow_id, fi.sender_id, fi.dest_id,
                                                x.pkts[k].seq, x.pkts[k].length)
                            /\ x.pkts[k].seq = SendStart(x) + (k - 1) * fi.max_packet_length
                            /\ x.pkts[k].seq < x.cumulative_acked + WindowBytes(f)
                            /\ x.pkts[k].seq < fi.length_bytes
                            /\ \/ x.pkts[k].length = fi.max_packet_length
                               \/ /\ k = Len(x.pkts)
                                  /\ x.pkts[k].length = fi.length_bytes - x.pkts[k].seq
                                  /\ x.pkts[k].length < fi.max_packet_length

\* a sender has filled its window with more of the flow left to send
SenderWindowWitness ==
    \E f \in Senders :
        /\ f.next_to_send - f.cumulative_acked = WindowBytes(f)
        /\ f.next_to_send < f.flow_info.length_bytes
        /\ f.g_exec.called
        /\ Len(f.g_exec.pkts) = ConstCwnd

\* an exec has sent a short last packet after a full one
SenderWindowShortLast ==
    \E f \in Senders :
        /\ Len(f.g_exec.pkts) > 1
        /\ f.g_exec.pkts[Len(f.g_exec.pkts)].length < f.flow_info.max_packet_length

(***************************************************************************)
(* SpecSender: one host holding one GoBackNSender, under any sequence of   *)
(* Host::exec, Host::receive of an Ack or Nack of its flow, and passing of *)
(* time.  Time is counted in ticks, as in SpecVictim.                      *)
(***************************************************************************)
MaxSenderOps == 6

\* a flow of three packets from host 0 to host 1, the last one full or short
SenderScenarios ==
    {InTicks(Scenario("lossy", 2, QueueLengthBytes, AccessLinkBandwidth, PerLinkPropagationDelay,
                      <<Arrival(FlowInfo(1, 0, 1, 2 * MaxPacketLength + tail, MaxPacketLength), 0)>>),
             NanosPerTick) : tail \in {500, MaxPacketLength}}

\* the sequence numbers the receiver of the flow can name
SenderSeqs == {k * MaxPacketLength : k \in 0..2} \cup {scn.flows[1].info.length_bytes}

\* the Acks and Nacks of the flow
SenderPackets ==
    {Ack(1, 1, 0, seq) : seq \in SenderSeqs} \cup {Nack(1, 1, 0, seq) : seq \in SenderSeqs}

\* the state after the flow's FlowArrivalEvent has run
InitSender ==
    /\ \E c \in SenderScenarios : scn = c
    /\ hosts = [make_hosts(scn) EXCEPT ![1] = host_flow_arrival(@, GoBackNSender(scn.flows[1].info))]
    /\ gh = [ops |-> 0, pkt |-> NoPkt]
    /\ pc = "sender"
    /\ current_time = 0
    /\ sw = <<>>
    /\ events = <<>>
    /\ pushed = 0
    /\ lastPop = NoContainer
    /\ polls = 0
    /\ q = <<>>
    /\ lookup = NoLookup

\* Host::exec on the sending host
SenderExec ==
    /\ pc = "sender"
    /\ gh.ops < MaxSenderOps
    /\ hosts' = [hosts EXCEPT ![1] = host_exec(hosts[1], current_time).node]
    /\ gh' = [ops |-> gh.ops + 1, pkt |-> NoPkt]
    /\ UNCHANGED <<events, current_time, pc, pushed, lastPop, polls, sw, scn, q, lookup>>

\* Host::receive of p on the sending host
SenderReceive(p) ==
    /\ pc = "sender"
    /\ gh.ops < MaxSenderOps
    /\ \E r \in {host_receive(hosts[1], p, current_time)} :
          /\ hosts' = [hosts EXCEPT ![1] = r.node]
          /\ pc' = IF r.panic THEN "panic" ELSE pc
    /\ gh' = [ops |-> gh.ops + 1, pkt |-> p]
    /\ UNCHANGED <<events, current_time, pushed, lastPop, polls, sw, scn, q, lookup>>

\* a little more than half the retransmission timeout passes
SenderWait ==
    /\ pc = "sender"
    /\ gh.ops < MaxSenderOps
    /\ current_time' = current_time + RetxTimeout \div 2 + 1
    /\ gh' = [ops |-> gh.ops + 1, pkt |-> NoPkt]
    /\ UNCHANGED <<events, pc, pushed, lastPop, polls, hosts, sw, scn, q, lookup>>

NextSender ==
    \/ SenderExec
    \/ \E p \in SenderPackets : SenderReceive(p)
    \/ SenderWait

SpecSender == InitSender /\ [][NextSender]_vars

\* the sender of SpecSender
TheSender == hosts[1].active_flows[1]

\* a step of SpecSender in which the sender was handed an Ack that is not ahead of
\* what it holds acknowledged
StaleAckStep ==
    /\ pc = "sender"
    /\ gh'.ops = gh.ops + 1
    /\ gh'.pkt.type = "Ack"
    /\ gh'.pkt.seq <= TheSender.cumulative_acked

====
